---------------------------- MODULE Spec2Model ----------------------------
(***************************************************************************)
(* nestjs-voter: the VoterInterceptor (pre- and post-authorization around  *)
(* a handler), the four registration decorators and the voters they call.  *)
(*                                                                         *)
(* One step of the model is one run of JavaScript between two awaits: the  *)
(* code from the resumption of a promise to the next await (or to the      *)
(* return/throw) is atomic, and every await is a point where the other     *)
(* pending continuations of the process may run first.                     *)
(***************************************************************************)
EXTENDS Integers, Sequences, FiniteSets, TLC

(***************************************************************************)
(* Bounds of the model.                                                    *)
(***************************************************************************)
\* Rule descriptors registered on the handler, both phases together.
MaxRules == 2
\* Values the handler's stream emits in one invocation.
MaxEmit == 2
\* The same when two invocations run at once.
MaxEmitTwo == 1

(***************************************************************************)
(* Values.                                                                 *)
(***************************************************************************)
Undefined == "undefined"
Null == "null"

\* What a handler can emit: {allowAccess: true} and {allowAccess: false}.
Data == {"allowTrue", "allowFalse"}

NoError == [type |-> "none", message |-> ""]
VoterException(message) == [type |-> "VoterException", message |-> message]
Error(message) == [type |-> "Error", message |-> message]
TypeError(message) == [type |-> "TypeError", message |-> message]
\* The handler's own failure (business logic), whatever it is.
HandlerError == [type |-> "HandlerError", message |-> "handler failed"]
\* A rule's error turned into a denial.
RuleErrorAsDenial == [type |-> "VoterException", message |-> "Access denied"]

\* What a throwing decision function throws: its own error.
RuleError == [type |-> "Error", message |-> "Should not be called"]

\* req.user: nothing, or what the authentication upstream attached.
NoUser == [present |-> FALSE, id |-> "", role |-> ""]
PlainUser == [present |-> TRUE, id |-> "user1", role |-> "user"]
AdminUser == [present |-> TRUE, id |-> "user1", role |-> "admin"]

EmptyMap == [k \in {} |-> ""]

(***************************************************************************)
(* The voters and inline predicates the interceptor is exercised with:     *)
(* TestVoter and CustomVoter of the interceptor's tests, the README's       *)
(* SimpleVoter, which is no provider, BrokenVoter, which is no provider    *)
(* and whose constructor throws, the example's UserVoter, which has a      *)
(* logger member and a supports that wants an object with id and email,    *)
(* and arrow functions of the shapes the tests and the README use.         *)
(***************************************************************************)
VoterClasses == {"TestVoter", "CustomVoter", "SimpleVoter", "BrokenVoter", "UserVoter"}
ArrowFunctions == {"allowAll", "denyAll", "dataAllowed", "overwriteData", "isAdminUser"}
\* function allowAny() { return true; }: a predicate declared with the
\* function keyword, which the decorators' parameter type admits as well.
OrdinaryFunctions == {"allowAny"}

\* typeof x === 'function' && x.prototype: classes and functions declared
\* with the function keyword have a prototype, arrow functions have none.
HasPrototype(x) == x \in VoterClasses \cup OrdinaryFunctions

\* Voter types the module's container holds an instance of.
Providers == {"TestVoter", "CustomVoter", "UserVoter"}

\* 'supports' in the instance: the voters extend BaseVoter.
HasSupports(cls) ==
    cls \in {"TestVoter", "CustomVoter", "SimpleVoter", "BrokenVoter", "UserVoter"}

\* voter.supports(data): BaseVoter's default is true, CustomVoter overrides
\* it with false, UserVoter with data && typeof data === 'object' && 'id' in
\* data && 'email' in data, which of the values here only "userDto" is.
Supports(cls, data) ==
    CASE cls = "CustomVoter" -> FALSE
      [] cls = "UserVoter" -> data = "userDto"
      [] OTHER -> TRUE

\* What voter[name] is: a method, a member that is no function, or nothing.
MemberKind(cls, name) ==
    CASE cls = "TestVoter" /\ name \in {"vote", "canCreate", "supports"} -> "function"
      [] cls = "CustomVoter" /\ name \in {"vote", "supports"} -> "function"
      [] cls = "SimpleVoter" /\ name \in {"vote", "supports"} -> "function"
      [] cls = "BrokenVoter" /\ name \in {"vote", "supports"} -> "function"
      [] cls = "UserVoter" /\ name \in {"vote", "canCreate", "canUpdate", "canDelete",
                                        "supports"} -> "function"
      [] cls = "UserVoter" /\ name = "logger" -> "object"
      [] OTHER -> "absent"

Bool(b) == IF b THEN "true" ELSE "false"

\* The outcome of voter[name](context): "true", "false" or "throw".
CallMethod(cls, name, c) ==
    CASE cls = "TestVoter" /\ name = "vote" -> Bool(c.data = "allowTrue")
      [] cls = "TestVoter" /\ name = "canCreate" ->
            Bool(c.auth.present /\ c.auth.role = "admin")
      [] cls = "CustomVoter" /\ name = "vote" -> "throw"
      \* context.auth.user.role === 'admin': the principals here have no user
      \* member, so the read of its role throws.
      [] cls = "SimpleVoter" /\ name = "vote" -> "throw"
      \* if (!auth || !auth.user) return false: the principals here have no
      \* user member.
      [] cls = "UserVoter" /\ name \in {"vote", "canCreate", "canUpdate", "canDelete"} ->
            "false"
      [] OTHER -> "throw"

\* The outcome of an inline predicate called with the context.
CallStatic(fn, c) ==
    CASE fn = "allowAll" -> "true"
      [] fn = "denyAll" -> "false"
      [] fn = "dataAllowed" -> Bool(c.data = "allowTrue")
      [] fn = "overwriteData" -> "true"
      [] fn = "allowAny" -> "true"
      \* context.auth.user.role === 'admin': the principals here have no user
      \* member, so the read of its role throws.
      [] fn = "isAdminUser" -> "throw"
      [] OTHER -> "throw"

\* The context after the predicate ran: overwriteData assigns context.data.
StaticEffect(fn, c) ==
    IF fn = "overwriteData" THEN [c EXCEPT !.data = "allowTrue"] ELSE c


(***************************************************************************)
(* State.                                                                  *)
(***************************************************************************)
VARIABLES
    preMeta,      \* PRE_AUTH_VOTER_METADATA of the handler; <<>> is undefined
    postMeta,     \* POST_AUTH_VOTER_METADATA of the handler; <<>> is undefined
    otherMeta,    \* both metadata lists of another handler, one that is
                  \*   decorated but not the one the invocations call
    request,      \* per invocation: the raw request of the execution context
    pc,           \* per invocation: where intercept() is
    rejection,    \* per invocation: what intercept()'s promise rejected with
    ctx,          \* per invocation: the voterContext object
    preFrame,     \* per invocation: executePreAuthVoters' loop position
    handleCalls,  \* per invocation: calls of next.handle()
    handler,      \* per invocation: the handler's stream
    tasks,        \* per invocation: the mergeMap projections, one per emission,
                  \*   each with what it called, in order
    out,          \* per invocation: the stream the caller is subscribed to
    log           \* per invocation: what intercept() called, in order

vars == <<preMeta, postMeta, otherMeta, request, pc, rejection, ctx, preFrame, handleCalls,
          handler, tasks, out, log>>
registry == <<preMeta, postMeta, otherMeta>>

\* The invocations of one behaviour.
Invocations == DOMAIN pc

NoContext == [data |-> Undefined, args |-> EmptyMap, auth |-> NoUser,
              methodName |-> Undefined, operationType |-> Undefined]
NoRequest ==
    [type |-> Undefined, user |-> NoUser, params |-> EmptyMap, query |-> EmptyMap,
     body |-> EmptyMap, gqlArgs |-> EmptyMap, handlerName |-> Undefined,
     fieldName |-> Undefined, operation |-> Undefined]
NoFrame == [at |-> "none", rule |-> 0, pending |-> "none", err |-> NoError]

LogEntry(op, phase, rule, data, result) ==
    [op |-> op, phase |-> phase, rule |-> rule, data |-> data, result |-> result]

InitFor(invs) ==
    /\ preMeta = <<>>
    /\ postMeta = <<>>
    /\ otherMeta = [pre |-> <<>>, post |-> <<>>]
    /\ request = [i \in invs |-> NoRequest]
    /\ pc = [i \in invs |-> "idle"]
    /\ rejection = [i \in invs |-> NoError]
    /\ ctx = [i \in invs |-> NoContext]
    /\ preFrame = [i \in invs |-> NoFrame]
    /\ handleCalls = [i \in invs |-> 0]
    /\ handler = [i \in invs |-> [state |-> "idle", emitted |-> <<>>]]
    /\ tasks = [i \in invs |-> <<>>]
    /\ out = [i \in invs |-> [state |-> "none", delivered |-> <<>>, error |-> NoError]]
    /\ log = [i \in invs |-> <<>>]

Init == InitFor({1})

(***************************************************************************)
(* Registration: the four decorators.  Each reads the handler's metadata   *)
(* (|| [] when there is none) and defines it again with one descriptor     *)
(* appended.  Decorators run when the class is defined, before any request.*)
(***************************************************************************)
Registering ==
    /\ \A i \in Invocations : pc[i] = "idle"
    /\ Len(preMeta) + Len(postMeta) < MaxRules

\* A decorator that puts its descriptor in front.
Prepended(existingMetadata, metadata) == <<metadata>> \o existingMetadata

\* A decorator that defines the metadata as its own descriptor alone.
Replaced(existingMetadata, metadata) == <<metadata>>

\* [...existingMetadata, metadata]
Appended(existingMetadata, metadata) == Append(existingMetadata, metadata)

PreAuthVoterMetadataOf(voterClassOrMethod) ==
    IF HasPrototype(voterClassOrMethod)
    THEN [voterClass |-> voterClassOrMethod, methodName |-> "vote",
          staticMethod |-> Undefined]
    ELSE [voterClass |-> Undefined, methodName |-> Undefined,
          staticMethod |-> voterClassOrMethod]

PostAuthVoterMetadataOf(voterClassOrMethod) ==
    IF HasPrototype(voterClassOrMethod)
    THEN [voterClass |-> voterClassOrMethod, methodName |-> "vote",
          staticMethod |-> Undefined]
    ELSE [voterClass |-> Undefined, methodName |-> Undefined,
          staticMethod |-> voterClassOrMethod]

MethodMetadataOf(voterClass, methodName) ==
    [voterClass |-> voterClass, methodName |-> methodName,
     staticMethod |-> Undefined]

PreAuthVoter(voterClassOrMethod) ==
    /\ Registering
    /\ preMeta' = Appended(preMeta, PreAuthVoterMetadataOf(voterClassOrMethod))
    /\ UNCHANGED <<postMeta, otherMeta, request, pc, rejection, ctx, preFrame, handleCalls,
                   handler, tasks, out, log>>

PreAuthVoterMethod(voterClass, methodName) ==
    /\ Registering
    /\ preMeta' = Appended(preMeta, MethodMetadataOf(voterClass, methodName))
    /\ UNCHANGED <<postMeta, otherMeta, request, pc, rejection, ctx, preFrame, handleCalls,
                   handler, tasks, out, log>>

PostAuthVoter(voterClassOrMethod) ==
    /\ Registering
    /\ postMeta' = Appended(postMeta, PostAuthVoterMetadataOf(voterClassOrMethod))
    /\ UNCHANGED <<preMeta, otherMeta, request, pc, rejection, ctx, preFrame, handleCalls,
                   handler, tasks, out, log>>

PostAuthVoterMethod(voterClass, methodName) ==
    /\ Registering
    /\ postMeta' = Appended(postMeta, MethodMetadataOf(voterClass, methodName))
    /\ UNCHANGED <<preMeta, otherMeta, request, pc, rejection, ctx, preFrame, handleCalls,
                   handler, tasks, out, log>>

\* The same decorators on the other handler: the metadata is read from and
\* defined on descriptor.value, the function that is decorated.
RegisteringOther ==
    /\ \A i \in Invocations : pc[i] = "idle"
    /\ Len(otherMeta.pre) + Len(otherMeta.post) < MaxRules

PreAuthVoterOther(voterClassOrMethod) ==
    /\ RegisteringOther
    /\ otherMeta' = [otherMeta EXCEPT
          !.pre = Appended(@, PreAuthVoterMetadataOf(voterClassOrMethod))]
    /\ UNCHANGED <<preMeta, postMeta, request, pc, rejection, ctx, preFrame,
                   handleCalls, handler, tasks, out, log>>

PreAuthVoterMethodOther(voterClass, methodName) ==
    /\ RegisteringOther
    /\ otherMeta' = [otherMeta EXCEPT
          !.pre = Appended(@, MethodMetadataOf(voterClass, methodName))]
    /\ UNCHANGED <<preMeta, postMeta, request, pc, rejection, ctx, preFrame,
                   handleCalls, handler, tasks, out, log>>

PostAuthVoterOther(voterClassOrMethod) ==
    /\ RegisteringOther
    /\ otherMeta' = [otherMeta EXCEPT
          !.post = Appended(@, PostAuthVoterMetadataOf(voterClassOrMethod))]
    /\ UNCHANGED <<preMeta, postMeta, request, pc, rejection, ctx, preFrame,
                   handleCalls, handler, tasks, out, log>>

PostAuthVoterMethodOther(voterClass, methodName) ==
    /\ RegisteringOther
    /\ otherMeta' = [otherMeta EXCEPT
          !.post = Appended(@, MethodMetadataOf(voterClass, methodName))]
    /\ UNCHANGED <<preMeta, postMeta, request, pc, rejection, ctx, preFrame,
                   handleCalls, handler, tasks, out, log>>

(***************************************************************************)
(* Context normalization: getRequest, getMethodArguments, getMethodContext.*)
(***************************************************************************)
\* A spread in which the earlier source keeps its keys.
SpreadFirstWins(a, b) ==
    [k \in (DOMAIN a) \cup (DOMAIN b) |-> IF k \in DOMAIN a THEN a[k] ELSE b[k]]

\* {...a, ...b}: the later source wins on a key both have.
Spread(a, b) ==
    [k \in (DOMAIN a) \cup (DOMAIN b) |-> IF k \in DOMAIN b THEN b[k] ELSE a[k]]

HttpRequest(user) ==
    [type |-> "http", user |-> user, params |-> EmptyMap, query |-> EmptyMap,
     body |-> EmptyMap, gqlArgs |-> EmptyMap, handlerName |-> "getUser",
     fieldName |-> Undefined, operation |-> Undefined]

GqlRequest(user, operation) ==
    [type |-> "graphql", user |-> user, params |-> EmptyMap, query |-> EmptyMap,
     body |-> EmptyMap, gqlArgs |-> EmptyMap, handlerName |-> "user",
     fieldName |-> "user", operation |-> operation]

\* The requests the engine is exercised with.
Requests ==
    {HttpRequest(AdminUser), GqlRequest(PlainUser, "subscription"),
     GqlRequest(NoUser, "fragment")}

\* req.user of the http request, or of the GraphQL context's req.
\* A request lookup that falls back to a guest user when none is attached.
getRequestWithGuest(req) ==
    [user |-> IF req.user = NoUser THEN PlainUser ELSE req.user]

getRequest(req) == [user |-> req.user]

\* An argument lookup that spreads the request's body over the arguments
\* whatever the context type.
getMethodArgumentsMerged(req) ==
    Spread(Spread(Spread(req.params, req.query), req.gqlArgs), req.body)

getMethodArguments(req) ==
    IF req.type = "http"
    THEN Spread(Spread(req.params, req.query), req.body)
    ELSE req.gqlArgs

\* A context builder that takes any operation type as it is.
AnyOperation(operationType) == TRUE

KnownOperation(operationType) ==
    operationType \in {"query", "mutation", "subscription"}

\* [err |-> NoError, ...] or the error getMethodContext throws.
getMethodContext(req) ==
    IF req.type = "http"
    THEN [err |-> NoError, methodName |-> req.handlerName, operationType |-> "http"]
    ELSE IF ~KnownOperation(req.operation)
         THEN [err |-> Error("Unknown GraphQL operation type: " \o req.operation),
               methodName |-> Undefined, operationType |-> Undefined]
         ELSE [err |-> NoError, methodName |-> req.fieldName,
               operationType |-> req.operation]

\* A context that starts out with data in it.
BuildContextWithData(req) ==
    [data |-> "allowTrue",
     args |-> getMethodArguments(req),
     auth |-> getRequest(req).user,
     methodName |-> getMethodContext(req).methodName,
     operationType |-> getMethodContext(req).operationType]

\* A context builder that forgets the principal once an invocation has been
\* turned away.
BuildContextOnceRejected(req) ==
    [data |-> Null,
     args |-> getMethodArguments(req),
     auth |-> IF \E j \in Invocations : pc[j] = "rejected"
              THEN NoUser ELSE getRequest(req).user,
     methodName |-> getMethodContext(req).methodName,
     operationType |-> getMethodContext(req).operationType]

\* The voterContext intercept builds.
BuildContext(req) ==
    [data |-> Null,
     args |-> getMethodArguments(req),
     auth |-> getRequest(req).user,
     methodName |-> getMethodContext(req).methodName,
     operationType |-> getMethodContext(req).operationType]

(***************************************************************************)
(* Voter resolution and the pieces of the two rule loops.                  *)
(***************************************************************************)
\* new voterClass(): every voter of the model has a default constructor.
Constructible(voterClass) == voterClass # "BrokenVoter"

\* A resolution that never asks the container.
getVoterInstanceFresh(voterClass) ==
    IF Constructible(voterClass) THEN "constructed" ELSE "failed"

\* moduleRef.get(voterClass, {strict: false}), else new voterClass().
getVoterInstance(voterClass) ==
    IF voterClass \in Providers THEN "shared"
    ELSE IF Constructible(voterClass) THEN "constructed"
    ELSE "failed"

\* meta.methodName, with no default.
MethodNameAsIs(meta) == meta.methodName

\* meta.methodName || 'vote'
MethodNameOf(meta) ==
    IF meta.methodName \in {Undefined, ""} THEN "vote" ELSE meta.methodName

\* A loop that takes every result for access granted.
NeverDenies(hasAccess) == FALSE

\* !hasAccess
Denies(hasAccess) == hasAccess = "false"

\* A loop that takes no notice of what supports returned.
NeverSkips(voterClass, c) == FALSE

\* voter.supports && !voter.supports(context.data)
Skips(voterClass, c) ==
    HasSupports(voterClass) /\ ~Supports(voterClass, c.data)

\* An interceptor without the early return.
AlwaysMetadata(preAuthMetadata, postAuthMetadata) == FALSE

\* if (!preAuthMetadata && !postAuthMetadata)
NoMetadata(preAuthMetadata, postAuthMetadata) ==
    preAuthMetadata = <<>> /\ postAuthMetadata = <<>>

\* Metadata taken for absent although it is there.
NeverDefined(metadata) == FALSE

\* if (preAuthMetadata) / if (postAuthMetadata)
Defined(metadata) == metadata # <<>>

PreStaticDenied == VoterException("Pre-authorization access denied")
PostStaticDenied == VoterException("Post-authorization access denied")
\* A denial that leaves the method out of its reason.
PreVoterDeniedUnnamed(voterClass, methodName) ==
    VoterException("Pre-authorization denied by " \o voterClass)

PreVoterDenied(voterClass, methodName) ==
    VoterException("Pre-authorization denied by " \o voterClass \o "." \o methodName)
PostVoterDenied(voterClass, methodName) ==
    VoterException("Post-authorization denied by " \o voterClass \o "." \o methodName)
\* A missing method reported as a denial.
MethodNotFoundDenied(voterClass, methodName) ==
    VoterException("Method " \o methodName \o " not found in " \o voterClass)

MethodNotFound(voterClass, methodName) ==
    Error("Method " \o methodName \o " not found in " \o voterClass)
\* A member that is no function reported as a missing one.
NotAFunctionAsMissing(voterClass, methodName) ==
    Error("Method " \o methodName \o " not found in " \o voterClass)

NotAFunction(voterClass, methodName) ==
    TypeError(methodName \o " is not a function in " \o voterClass)
\* A failed construction reported as a denial.
ResolutionDenied(voterClass) ==
    VoterException(voterClass \o " cannot be constructed")

ResolutionError(voterClass) ==
    Error(voterClass \o " cannot be constructed")

\* One run of a loop up to its next await, return or throw.
Run(at, rule, pending, err, c, entries) ==
    [frame |-> [at |-> at, rule |-> rule, pending |-> pending, err |-> err],
     ctx |-> c, log |-> entries]
Thrown(rule, err, c) == Run("threw", rule, "none", err, c, <<>>)

(***************************************************************************)
(* executePreAuthVoters.                                                   *)
(***************************************************************************)
RECURSIVE PreLoop(_, _, _)
\* The loop from rule k on: up to the first await.
PreLoop(metadata, k, c) ==
    IF k > Len(metadata) THEN Run("returned", k, "none", NoError, c, <<>>)
    ELSE LET meta == metadata[k] IN
         IF meta.staticMethod # Undefined
         THEN Run("awaitStatic", k, CallStatic(meta.staticMethod, c), NoError,
                  StaticEffect(meta.staticMethod, c),
                  <<LogEntry("call", "pre", k, c.data,
                             CallStatic(meta.staticMethod, c))>>)
         ELSE IF meta.voterClass # Undefined
         THEN Run("awaitVoter", k, getVoterInstance(meta.voterClass), NoError, c,
                  <<LogEntry("resolve", "pre", k, c.data,
                             getVoterInstance(meta.voterClass))>>)
         ELSE PreLoop(metadata, k + 1, c)

\* A loop that goes on whatever the predicate returned.
PreAfterStaticLenient(metadata, f, c) == PreLoop(metadata, f.rule + 1, c)

\* A predicate whose promise stays pending: the loop is where it was.
PreAfterStaticPending(metadata, f, c) ==
    Run(f.at, f.rule, f.pending, f.err, c, <<>>)

\* await meta.staticMethod(context) resumed.
PreAfterStatic(metadata, f, c) ==
    IF f.pending = "throw" THEN Thrown(f.rule, RuleError, c)
    ELSE IF Denies(f.pending) THEN Thrown(f.rule, PreStaticDenied, c)
    ELSE PreLoop(metadata, f.rule + 1, c)

\* A pre-phase that asks supports as the post-phase does.
PreAfterVoterFiltered(metadata, f, c) ==
    LET meta == metadata[f.rule]
        methodName == MethodNameOf(meta)
    IN  IF f.pending = "failed"
        THEN Thrown(f.rule, ResolutionError(meta.voterClass), c)
        ELSE IF Skips(meta.voterClass, c)
        THEN PreLoop(metadata, f.rule + 1, c)
        ELSE IF MemberKind(meta.voterClass, methodName) = "absent"
        THEN Thrown(f.rule, MethodNotFound(meta.voterClass, methodName), c)
        ELSE IF MemberKind(meta.voterClass, methodName) # "function"
        THEN Thrown(f.rule, NotAFunction(meta.voterClass, methodName), c)
        ELSE Run("awaitMethod", f.rule,
                 CallMethod(meta.voterClass, methodName, c), NoError, c,
                 <<LogEntry("call", "pre", f.rule, c.data,
                            CallMethod(meta.voterClass, methodName, c))>>)

\* await this.getVoterInstance(meta.voterClass) resumed.
PreAfterVoter(metadata, f, c) ==
    LET meta == metadata[f.rule]
        methodName == MethodNameOf(meta)
    IN  IF f.pending = "failed"
        THEN Thrown(f.rule, ResolutionError(meta.voterClass), c)
        ELSE IF MemberKind(meta.voterClass, methodName) = "absent"
        THEN Thrown(f.rule, MethodNotFound(meta.voterClass, methodName), c)
        ELSE IF MemberKind(meta.voterClass, methodName) # "function"
        THEN Thrown(f.rule, NotAFunction(meta.voterClass, methodName), c)
        ELSE Run("awaitMethod", f.rule,
                 CallMethod(meta.voterClass, methodName, c), NoError, c,
                 <<LogEntry("call", "pre", f.rule, c.data,
                            CallMethod(meta.voterClass, methodName, c))>>)

\* await method.call(voter, context) resumed.
PreAfterMethod(metadata, f, c) ==
    LET meta == metadata[f.rule] IN
    IF f.pending = "throw" THEN Thrown(f.rule, RuleError, c)
    ELSE IF Denies(f.pending)
    THEN Thrown(f.rule, PreVoterDenied(meta.voterClass, MethodNameOf(meta)), c)
    ELSE PreLoop(metadata, f.rule + 1, c)

(***************************************************************************)
(* executePostAuthVoters, run by the projection of one emitted value.      *)
(***************************************************************************)
RECURSIVE PostLoop(_, _, _)
PostLoop(metadata, k, c) ==
    IF k > Len(metadata) THEN Run("returned", k, "none", NoError, c, <<>>)
    ELSE LET meta == metadata[k] IN
         IF meta.staticMethod # Undefined
         THEN Run("awaitStatic", k, CallStatic(meta.staticMethod, c), NoError,
                  StaticEffect(meta.staticMethod, c),
                  <<LogEntry("call", "post", k, c.data,
                             CallStatic(meta.staticMethod, c))>>)
         ELSE IF meta.voterClass # Undefined
         THEN Run("awaitVoter", k, getVoterInstance(meta.voterClass), NoError, c,
                  <<LogEntry("resolve", "post", k, c.data,
                             getVoterInstance(meta.voterClass))>>)
         ELSE PostLoop(metadata, k + 1, c)

PostAfterStatic(metadata, f, c) ==
    IF f.pending = "throw" THEN Thrown(f.rule, RuleError, c)
    ELSE IF Denies(f.pending) THEN Thrown(f.rule, PostStaticDenied, c)
    ELSE PostLoop(metadata, f.rule + 1, c)

\* await this.getVoterInstance(meta.voterClass) resumed: supports, then the
\* method lookup and its call.
PostAfterVoter(metadata, f, c) ==
    LET meta == metadata[f.rule]
        methodName == MethodNameOf(meta)
        asked == IF HasSupports(meta.voterClass)
                 THEN <<LogEntry("supports", "post", f.rule, c.data,
                                 Bool(Supports(meta.voterClass, c.data)))>>
                 ELSE <<>>
    IN  IF f.pending = "failed"
        THEN Thrown(f.rule, ResolutionError(meta.voterClass), c)
        ELSE IF Skips(meta.voterClass, c)
        THEN LET r == PostLoop(metadata, f.rule + 1, c)
             IN  [r EXCEPT !.log = asked \o r.log]
        ELSE IF MemberKind(meta.voterClass, methodName) = "absent"
        THEN [Thrown(f.rule, MethodNotFound(meta.voterClass, methodName), c)
                EXCEPT !.log = asked]
        ELSE IF MemberKind(meta.voterClass, methodName) # "function"
        THEN [Thrown(f.rule, NotAFunction(meta.voterClass, methodName), c)
                EXCEPT !.log = asked]
        ELSE Run("awaitMethod", f.rule,
                 CallMethod(meta.voterClass, methodName, c), NoError, c,
                 asked \o <<LogEntry("call", "post", f.rule, c.data,
                                     CallMethod(meta.voterClass, methodName, c))>>)

\* A loop that goes on to the next rule whatever the method returned.
PostAfterMethodLenient(metadata, f, c) ==
    IF f.pending = "throw" THEN Thrown(f.rule, RuleError, c)
    ELSE PostLoop(metadata, f.rule + 1, c)

PostAfterMethod(metadata, f, c) ==
    LET meta == metadata[f.rule] IN
    IF f.pending = "throw" THEN Thrown(f.rule, RuleError, c)
    ELSE IF Denies(f.pending)
    THEN Thrown(f.rule, PostVoterDenied(meta.voterClass, MethodNameOf(meta)), c)
    ELSE PostLoop(metadata, f.rule + 1, c)

(***************************************************************************)
(* intercept.                                                              *)
(***************************************************************************)
\* next.handle(): the handler's stream, which the caller then subscribes to,
\* piped through mergeMap when there is post-phase metadata.
\* A caller that has gone away meanwhile subscribes to nothing: the stream
\* is made and left alone.
CallHandler(i) ==
    /\ pc' = [pc EXCEPT ![i] = IF Defined(postMeta) THEN "piped" ELSE "raw"]
    /\ handleCalls' = [handleCalls EXCEPT ![i] = @ + 1]
    /\ handler' = [handler EXCEPT ![i].state =
                      IF out[i].state = "unsubscribed" THEN @ ELSE "active"]
    /\ out' = [out EXCEPT ![i].state =
                  IF @ = "unsubscribed" THEN @ ELSE "open"]

\* An intercept that calls the handler also when the pre-phase threw.
ProceedRegardless(i, r, entries) ==
    /\ ctx' = [ctx EXCEPT ![i] = r.ctx]
    /\ preFrame' = [preFrame EXCEPT ![i] = r.frame]
    /\ IF r.frame.at \in {"returned", "threw"}
       THEN /\ CallHandler(i)
            /\ log' = [log EXCEPT ![i] = @ \o entries \o r.log
                          \o <<LogEntry("handle", "", 0, r.ctx.data, "")>>]
            /\ UNCHANGED rejection
       ELSE /\ pc' = [pc EXCEPT ![i] = "pre"]
            /\ log' = [log EXCEPT ![i] = @ \o entries \o r.log]
            /\ UNCHANGED <<rejection, handleCalls, handler, out>>

\* What intercept does with a run r of executePreAuthVoters: go on to the
\* handler, reject, or wait at the run's await.
Proceed(i, r, entries) ==
    /\ ctx' = [ctx EXCEPT ![i] = r.ctx]
    /\ preFrame' = [preFrame EXCEPT ![i] = r.frame]
    /\ IF r.frame.at = "returned"
       THEN /\ CallHandler(i)
            /\ log' = [log EXCEPT ![i] = @ \o entries \o r.log
                          \o <<LogEntry("handle", "", 0, r.ctx.data, "")>>]
            /\ UNCHANGED rejection
       ELSE IF r.frame.at = "threw"
       THEN /\ pc' = [pc EXCEPT ![i] = "rejected"]
            /\ rejection' = [rejection EXCEPT ![i] = r.frame.err]
            /\ log' = [log EXCEPT ![i] = @ \o entries \o r.log]
            /\ UNCHANGED <<handleCalls, handler, out>>
       ELSE /\ pc' = [pc EXCEPT ![i] = "pre"]
            /\ log' = [log EXCEPT ![i] = @ \o entries \o r.log]
            /\ UNCHANGED <<rejection, handleCalls, handler, out>>

intercept(i, req) ==
    /\ pc[i] = "idle"
    /\ request' = [request EXCEPT ![i] = req]
    /\ IF NoMetadata(preMeta, postMeta)
       THEN /\ CallHandler(i)
            /\ log' = [log EXCEPT ![i] =
                          @ \o <<LogEntry("handle", "", 0, Undefined, "")>>]
            /\ UNCHANGED <<rejection, ctx, preFrame>>
       ELSE IF getMethodContext(req).err # NoError
       THEN /\ pc' = [pc EXCEPT ![i] = "rejected"]
            /\ rejection' = [rejection EXCEPT ![i] = getMethodContext(req).err]
            /\ log' = [log EXCEPT ![i] =
                          @ \o <<LogEntry("normalize", "", 0, Undefined, "throw")>>]
            /\ UNCHANGED <<ctx, preFrame, handleCalls, handler, out>>
       ELSE Proceed(i,
                    IF Defined(preMeta)
                    THEN PreLoop(preMeta, 1, BuildContext(req))
                    ELSE Run("returned", 0, "none", NoError, BuildContext(req), <<>>),
                    <<LogEntry("normalize", "", 0, Null, "")>>)
    /\ UNCHANGED <<registry, tasks>>

PreStaticResolved(i) ==
    /\ pc[i] = "pre"
    /\ preFrame[i].at = "awaitStatic"
    /\ Proceed(i, PreAfterStatic(preMeta, preFrame[i], ctx[i]), <<>>)
    /\ UNCHANGED <<registry, request, tasks>>

\* An interceptor that keeps one context for all its invocations.
PreVoterResolvedShared(i) ==
    /\ pc[i] = "pre"
    /\ preFrame[i].at = "awaitVoter"
    /\ Proceed(i, PreAfterVoter(preMeta, preFrame[i],
                                ctx[CHOOSE j \in Invocations : ctx[j] # NoContext]), <<>>)
    /\ UNCHANGED <<registry, request, tasks>>

PreVoterResolved(i) ==
    /\ pc[i] = "pre"
    /\ preFrame[i].at = "awaitVoter"
    /\ Proceed(i, PreAfterVoter(preMeta, preFrame[i], ctx[i]), <<>>)
    /\ UNCHANGED <<registry, request, tasks>>

PreMethodResolved(i) ==
    /\ pc[i] = "pre"
    /\ preFrame[i].at = "awaitMethod"
    /\ Proceed(i, PreAfterMethod(preMeta, preFrame[i], ctx[i]), <<>>)
    /\ UNCHANGED <<registry, request, tasks>>

(***************************************************************************)
(* The handler's stream and the mergeMap projection of intercept.          *)
(***************************************************************************)
Finished(task) == task.frame.at \in {"returned", "threw"}
AllFinished(ts) == \A t \in DOMAIN ts : Finished(ts[t])

\* A projection that returns what the context holds.
ProjectionOfContext(data, c) == c.data

\* return data
ProjectionResult(data, c) == data

\* A stream that keeps notifying its subscriber after it errored.
FateRegardless(o, frame) ==
    CASE frame.at = "returned" -> "delivered"
      [] frame.at = "threw" -> "raised"
      [] OTHER -> "pending"

\* What mergeMap did with a finished projection: "delivered" its value or
\* "raised" its error to the caller, or, the caller's stream having ended,
\* "dropped" the value or "swallowed" the error.
Fate(o, frame) ==
    CASE frame.at = "returned" -> IF o.state = "open" THEN "delivered" ELSE "dropped"
      [] frame.at = "threw" -> IF o.state = "open" THEN "raised" ELSE "swallowed"
      [] OTHER -> "pending"

\* The caller's stream o after the projection of data ran up to frame; the
\* stream completes with the last projection once the handler has completed.
Notified(o, frame, t, data, c, lastOne) ==
    CASE Fate(o, frame) = "delivered" ->
            [o EXCEPT !.delivered = Append(@, [task |-> t,
                                               value |-> ProjectionResult(data, c)]),
                      !.state = IF lastOne THEN "completed" ELSE "open"]
      [] Fate(o, frame) = "raised" ->
            [o EXCEPT !.state = "errored", !.error = frame.err]
      [] OTHER -> o

\* The handler emits data.  Piped: the projection assigns voterContext.data
\* and runs executePostAuthVoters up to its first await.
HandlerEmit(i, data) ==
    /\ pc[i] \in {"raw", "piped"}
    /\ handler[i].state = "active"
    /\ out[i].state = "open"
    /\ Len(handler[i].emitted) < MaxEmit
    /\ handler' = [handler EXCEPT ![i].emitted = Append(@, data)]
    /\ IF pc[i] = "raw"
       THEN /\ out' = [out EXCEPT ![i].delivered =
                            Append(@, [task |-> Len(handler[i].emitted) + 1,
                                       value |-> data])]
            /\ UNCHANGED <<ctx, tasks>>
       ELSE LET t == Len(tasks[i]) + 1
                r == PostLoop(postMeta, 1, [ctx[i] EXCEPT !.data = data])
            IN  /\ ctx' = [ctx EXCEPT ![i] = r.ctx]
                /\ tasks' = [tasks EXCEPT ![i] =
                                Append(@, [data |-> data, frame |-> r.frame,
                                           fate |-> Fate(out[i], r.frame),
                                           log |-> <<LogEntry("setData", "post", 0, data, "")>>
                                                     \o r.log])]
                /\ out' = [out EXCEPT ![i] = Notified(@, r.frame, t, data, r.ctx, FALSE)]
    /\ UNCHANGED <<registry, request, pc, rejection, preFrame, handleCalls, log>>

\* The handler's stream completes: the piped stream completes once no
\* projection is pending.
HandlerComplete(i) ==
    /\ pc[i] \in {"raw", "piped"}
    /\ handler[i].state = "active"
    /\ out[i].state = "open"
    /\ handler' = [handler EXCEPT ![i].state = "completed"]
    /\ out' = [out EXCEPT ![i].state =
                  IF AllFinished(tasks[i]) THEN "completed" ELSE "open"]
    /\ UNCHANGED <<registry, request, pc, rejection, ctx, preFrame, handleCalls, tasks, log>>

\* A pipe that turns the handler's error into a denial.
HandlerFailDenied(i) ==
    /\ pc[i] \in {"raw", "piped"}
    /\ handler[i].state = "active"
    /\ out[i].state = "open"
    /\ handler' = [handler EXCEPT ![i].state = "errored"]
    /\ out' = [out EXCEPT ![i].state = "errored",
                          ![i].error = VoterException("Access denied")]
    /\ UNCHANGED <<registry, request, pc, rejection, ctx, preFrame, handleCalls, tasks, log>>

\* The handler fails: its error goes to the caller as it is.
HandlerFail(i) ==
    /\ pc[i] \in {"raw", "piped"}
    /\ handler[i].state = "active"
    /\ out[i].state = "open"
    /\ handler' = [handler EXCEPT ![i].state = "errored"]
    /\ out' = [out EXCEPT ![i].state = "errored", ![i].error = HandlerError]
    /\ UNCHANGED <<registry, request, pc, rejection, ctx, preFrame, handleCalls, tasks, log>>

\* A run r of executePostAuthVoters in task t; when it ends the projection
\* settles and mergeMap passes its value or its error on.
PostRan(i, t, r) ==
    /\ ctx' = [ctx EXCEPT ![i] = r.ctx]
    /\ tasks' = [tasks EXCEPT ![i][t].frame = r.frame,
                              ![i][t].fate = Fate(out[i], r.frame),
                              ![i][t].log = @ \o r.log]
    /\ out' = [out EXCEPT ![i] =
                  Notified(@, r.frame, t, tasks[i][t].data, r.ctx,
                           /\ handler[i].state = "completed"
                           /\ \A u \in DOMAIN tasks[i] \ {t} : Finished(tasks[i][u]))]
    /\ UNCHANGED <<registry, request, pc, rejection, preFrame, handleCalls, handler, log>>

PostStaticResolved(i, t) ==
    /\ t \in DOMAIN tasks[i]
    /\ tasks[i][t].frame.at = "awaitStatic"
    /\ PostRan(i, t, PostAfterStatic(postMeta, tasks[i][t].frame, ctx[i]))

PostVoterResolved(i, t) ==
    /\ t \in DOMAIN tasks[i]
    /\ tasks[i][t].frame.at = "awaitVoter"
    /\ PostRan(i, t, PostAfterVoter(postMeta, tasks[i][t].frame, ctx[i]))

PostMethodResolved(i, t) ==
    /\ t \in DOMAIN tasks[i]
    /\ tasks[i][t].frame.at = "awaitMethod"
    /\ PostRan(i, t, PostAfterMethod(postMeta, tasks[i][t].frame, ctx[i]))

\* The caller goes away (unsubscribes, disconnects) while intercept's
\* promise is pending or while it is subscribed to the returned stream.  The
\* subscription to the handler's stream is torn down with it; the promises
\* of intercept, executePreAuthVoters and the projections are not: nothing
\* in them looks at the subscription.
Cancel(i) ==
    /\ \/ pc[i] = "pre" /\ out[i].state = "none"
       \/ pc[i] \in {"raw", "piped"} /\ out[i].state = "open"
    /\ out' = [out EXCEPT ![i].state = "unsubscribed"]
    /\ handler' = [handler EXCEPT ![i].state =
                      IF @ = "active" THEN "unsubscribed" ELSE @]
    /\ UNCHANGED <<registry, request, pc, rejection, ctx, preFrame, handleCalls,
                   tasks, log>>

(***************************************************************************)
(* The specification.                                                      *)
(***************************************************************************)
\* The registrations of the model: what each decorator is applied with.
PreAuthVoterArgs == {"allowAll", "denyAll", "TestVoter", "CustomVoter"}
PreAuthVoterMethodArgs ==
    {<<"TestVoter", "canCreate">>, <<"TestVoter", "nonExistentMethod">>}
PostAuthVoterArgs == {"dataAllowed", "overwriteData", "TestVoter", "CustomVoter"}
PostAuthVoterMethodArgs ==
    {<<"TestVoter", "nonExistentMethod">>, <<"CustomVoter", "nonExistentMethod">>}

\* The requests of the main specification: an admin's http request and a
\* GraphQL request whose operation the context builder rejects.  (The other
\* specifications take theirs from all of Requests.)
HandledRequests == {HttpRequest(AdminUser), GqlRequest(NoUser, "fragment")}

Next ==
    \/ \E x \in PreAuthVoterArgs : PreAuthVoter(x)
    \/ \E m \in PreAuthVoterMethodArgs : PreAuthVoterMethod(m[1], m[2])
    \/ \E x \in PostAuthVoterArgs : PostAuthVoter(x)
    \/ \E m \in PostAuthVoterMethodArgs : PostAuthVoterMethod(m[1], m[2])
    \/ \E i \in Invocations, req \in HandledRequests : intercept(i, req)
    \/ \E i \in Invocations : PreStaticResolved(i)
    \/ \E i \in Invocations : PreVoterResolved(i)
    \/ \E i \in Invocations : PreMethodResolved(i)
    \/ \E i \in Invocations, data \in Data : HandlerEmit(i, data)
    \/ \E i \in Invocations : HandlerComplete(i)
    \/ \E i \in Invocations : HandlerFail(i)
    \/ \E i \in Invocations, t \in 1..MaxEmit : PostStaticResolved(i, t)
    \/ \E i \in Invocations, t \in 1..MaxEmit : PostVoterResolved(i, t)
    \/ \E i \in Invocations, t \in 1..MaxEmit : PostMethodResolved(i, t)

Spec == Init /\ [][Next]_vars

\* The same with a caller that may go away.
NextCancel ==
    \/ Next
    \/ \E i \in Invocations : Cancel(i)

SpecCancel == Init /\ [][NextCancel]_vars

\* Two invocations of the handler in flight at once, each with its own
\* request, a pre-phase rule that looks at the principal and a post-phase
\* rule that looks at the data; each handler emits up to MaxEmitTwo values.
InitTwo == InitFor({1, 2})

NextTwo ==
    \/ PreAuthVoterMethod("TestVoter", "canCreate")
    \/ PostAuthVoter("TestVoter")
    \/ \E i \in Invocations, req \in Requests : intercept(i, req)
    \/ \E i \in Invocations : PreVoterResolved(i)
    \/ \E i \in Invocations : PreMethodResolved(i)
    \/ \E i \in Invocations, data \in Data :
          Len(handler[i].emitted) < MaxEmitTwo /\ HandlerEmit(i, data)
    \/ \E i \in Invocations : HandlerComplete(i)
    \/ \E i \in Invocations, t \in 1..MaxEmitTwo : PostVoterResolved(i, t)
    \/ \E i \in Invocations, t \in 1..MaxEmitTwo : PostMethodResolved(i, t)

SpecTwo == InitTwo /\ [][NextTwo]_vars

\* Voter rules whose voter is a provider, is no provider, or is no provider
\* and cannot be constructed either.
ResolvedVoters == {"TestVoter", "SimpleVoter", "BrokenVoter"}

NextResolve ==
    \/ \E x \in ResolvedVoters : PreAuthVoter(x)
    \/ \E x \in ResolvedVoters : PostAuthVoter(x)
    \/ \E i \in Invocations, req \in Requests : intercept(i, req)
    \/ \E i \in Invocations : PreVoterResolved(i)
    \/ \E i \in Invocations : PreMethodResolved(i)
    \/ \E i \in Invocations, data \in Data : HandlerEmit(i, data)
    \/ \E i \in Invocations : HandlerComplete(i)
    \/ \E i \in Invocations, t \in 1..MaxEmit : PostVoterResolved(i, t)
    \/ \E i \in Invocations, t \in 1..MaxEmit : PostMethodResolved(i, t)

SpecResolve == Init /\ [][NextResolve]_vars

\* Requests of every shape the context is built from: each of params, query
\* and body (and the GraphQL argument map) holds any of the keys, every
\* value telling the source it came from; any principal; and for GraphQL
\* any operation, one the context builder does not know included.
Keys == {"id", "name"}
MapsOf(value) == {[k \in S |-> value] : S \in SUBSET Keys}
Principals == {NoUser, PlainUser, AdminUser}
Operations == {"query", "mutation", "subscription", "fragment"}

HttpRequestOf(user, params, query, body) ==
    [HttpRequest(user) EXCEPT !.params = params, !.query = query, !.body = body]

GqlRequestOf(user, operation, gqlArgs, body) ==
    [GqlRequest(user, operation) EXCEPT
        !.gqlArgs = gqlArgs, !.body = body, !.handlerName = "findUser"]

RawRequests ==
    {HttpRequestOf(u, p, q, b) :
        u \in Principals, p \in MapsOf("param"), q \in MapsOf("query"),
        b \in MapsOf("body")}
    \cup
    {GqlRequestOf(u, op, a, b) :
        u \in Principals, op \in Operations, a \in MapsOf("arg"),
        b \in {EmptyMap, [k \in Keys |-> "body"]}}

NextNormalize ==
    \/ PreAuthVoter("allowAll")
    \/ PreAuthVoterMethod("TestVoter", "canCreate")
    \/ PostAuthVoter("dataAllowed")
    \/ \E i \in Invocations, req \in RawRequests : intercept(i, req)
    \/ \E i \in Invocations : PreStaticResolved(i)
    \/ \E i \in Invocations : PreVoterResolved(i)
    \/ \E i \in Invocations : PreMethodResolved(i)
    \/ \E i \in Invocations, data \in Data : HandlerEmit(i, data)
    \/ \E i \in Invocations : HandlerComplete(i)
    \/ \E i \in Invocations, t \in 1..MaxEmit : PostStaticResolved(i, t)

SpecNormalize == Init /\ [][NextNormalize]_vars

\* Two invocations that may be given the same request, one after the other
\* or both in flight: a plain user and an admin over http with params and a
\* query that share a key, a GraphQL mutation with arguments, and a GraphQL
\* operation the context builder does not know.
RepeatedRequests ==
    {HttpRequestOf(u, [k \in Keys |-> "param"], [k \in {"id"} |-> "query"], EmptyMap) :
        u \in {PlainUser, AdminUser}}
    \cup {GqlRequestOf(AdminUser, "mutation", [k \in {"id"} |-> "arg"],
                       [k \in Keys |-> "body"]),
          GqlRequestOf(NoUser, "fragment", EmptyMap, EmptyMap)}

NextRepeat ==
    \/ PreAuthVoterMethod("TestVoter", "canCreate")
    \/ PostAuthVoter("dataAllowed")
    \/ \E i \in Invocations, req \in RepeatedRequests : intercept(i, req)
    \/ \E i \in Invocations : PreVoterResolved(i)
    \/ \E i \in Invocations : PreMethodResolved(i)
    \/ \E i \in Invocations, data \in Data :
          Len(handler[i].emitted) < MaxEmitTwo /\ HandlerEmit(i, data)
    \/ \E i \in Invocations : HandlerComplete(i)
    \/ \E i \in Invocations, t \in 1..MaxEmitTwo : PostStaticResolved(i, t)

SpecRepeat == InitTwo /\ [][NextRepeat]_vars

\* Voter rules on UserVoter, TestVoter and CustomVoter: the named member is
\* a method, a member that is no function (UserVoter's logger), missing, the
\* empty name or no name; the handler emits a value UserVoter supports or
\* one it does not.
NamedMembers ==
    {<<"UserVoter", "logger">>, <<"UserVoter", "missing">>,
     <<"TestVoter", "">>, <<"TestVoter", Undefined>>}
EmittedValues == {"allowTrue", "userDto"}

NextVoters ==
    \/ \E x \in {"UserVoter", "CustomVoter"} : PreAuthVoter(x)
    \/ \E named \in NamedMembers \cup {<<"TestVoter", "canCreate">>} :
          PreAuthVoterMethod(named[1], named[2])
    \/ \E named \in NamedMembers : PostAuthVoterMethod(named[1], named[2])
    \/ \E i \in Invocations : intercept(i, HttpRequest(AdminUser))
    \/ \E i \in Invocations : PreVoterResolved(i)
    \/ \E i \in Invocations : PreMethodResolved(i)
    \/ \E i \in Invocations, data \in EmittedValues : HandlerEmit(i, data)
    \/ \E i \in Invocations : HandlerComplete(i)
    \/ \E i \in Invocations, t \in 1..MaxEmit : PostVoterResolved(i, t)
    \/ \E i \in Invocations, t \in 1..MaxEmit : PostMethodResolved(i, t)

SpecVoters == Init /\ [][NextVoters]_vars

\* Rules and a handler that all return in the end: every promise intercept
\* or a projection awaits is settled at some time, and the handler's stream
\* completes or fails at some time.  Nothing else is assumed: requests need
\* not come, and the handler need not emit.
NextLive ==
    \/ PreAuthVoter("allowAll")
    \/ PreAuthVoterMethod("TestVoter", "canCreate")
    \/ PostAuthVoter("dataAllowed")
    \/ PostAuthVoterMethod("TestVoter", "vote")
    \/ \E i \in Invocations, req \in HandledRequests : intercept(i, req)
    \/ \E i \in Invocations : PreStaticResolved(i)
    \/ \E i \in Invocations : PreVoterResolved(i)
    \/ \E i \in Invocations : PreMethodResolved(i)
    \/ \E i \in Invocations, data \in Data : HandlerEmit(i, data)
    \/ \E i \in Invocations : HandlerComplete(i)
    \/ \E i \in Invocations : HandlerFail(i)
    \/ \E i \in Invocations, t \in 1..MaxEmit : PostStaticResolved(i, t)
    \/ \E i \in Invocations, t \in 1..MaxEmit : PostVoterResolved(i, t)
    \/ \E i \in Invocations, t \in 1..MaxEmit : PostMethodResolved(i, t)

\* The invocations of Init.
LiveInvocations == {1}

RulesReturn ==
    /\ \A i \in LiveInvocations :
          /\ WF_vars(PreStaticResolved(i))
          /\ WF_vars(PreVoterResolved(i))
          /\ WF_vars(PreMethodResolved(i))
    /\ \A i \in LiveInvocations, t \in 1..MaxEmit :
          /\ WF_vars(PostStaticResolved(i, t))
          /\ WF_vars(PostVoterResolved(i, t))
          /\ WF_vars(PostMethodResolved(i, t))

HandlerReturns ==
    \A i \in LiveInvocations : WF_vars(HandlerComplete(i) \/ HandlerFail(i))

SpecLive == Init /\ [][NextLive]_vars /\ RulesReturn /\ HandlerReturns

\* Rules that throw instead of returning: the README's inline predicate
\* that reads context.auth.user.role, CustomVoter.vote (in the pre-phase,
\* where supports is not asked) and SimpleVoter.vote, next to rules that
\* return true.
NextThrow ==
    \/ \E x \in {"allowAll", "isAdminUser", "CustomVoter"} : PreAuthVoter(x)
    \/ \E x \in {"allowAll", "isAdminUser", "SimpleVoter"} : PostAuthVoter(x)
    \/ \E i \in Invocations : intercept(i, HttpRequest(AdminUser))
    \/ \E i \in Invocations : PreStaticResolved(i)
    \/ \E i \in Invocations : PreVoterResolved(i)
    \/ \E i \in Invocations : PreMethodResolved(i)
    \/ \E i \in Invocations, data \in Data : HandlerEmit(i, data)
    \/ \E i \in Invocations : HandlerComplete(i)
    \/ \E i \in Invocations, t \in 1..MaxEmit : PostStaticResolved(i, t)
    \/ \E i \in Invocations, t \in 1..MaxEmit : PostVoterResolved(i, t)
    \/ \E i \in Invocations, t \in 1..MaxEmit : PostMethodResolved(i, t)

SpecThrow == Init /\ [][NextThrow]_vars

\* Two decorated handlers of one controller, invocations of the first.
NextRegister ==
    \/ \E x \in {"allowAll", "allowAny"} : PreAuthVoter(x)
    \/ PreAuthVoterMethod("TestVoter", "canCreate")
    \/ \E x \in {"dataAllowed", "allowAny"} : PostAuthVoter(x)
    \/ PostAuthVoterMethod("TestVoter", "vote")
    \/ PreAuthVoterOther("TestVoter")
    \/ PreAuthVoterMethodOther("TestVoter", "canCreate")
    \/ PostAuthVoterOther("allowAll")
    \/ PostAuthVoterMethodOther("CustomVoter", "vote")
    \/ \E i \in Invocations : intercept(i, HttpRequest(AdminUser))
    \/ \E i \in Invocations : PreStaticResolved(i)
    \/ \E i \in Invocations : PreVoterResolved(i)
    \/ \E i \in Invocations : PreMethodResolved(i)
    \/ \E i \in Invocations : HandlerEmit(i, "allowTrue")
    \/ \E i \in Invocations : HandlerComplete(i)
    \/ \E i \in Invocations, t \in 1..MaxEmit : PostStaticResolved(i, t)
    \/ \E i \in Invocations, t \in 1..MaxEmit : PostVoterResolved(i, t)
    \/ \E i \in Invocations, t \in 1..MaxEmit : PostMethodResolved(i, t)

SpecRegister == Init /\ [][NextRegister]_vars

(***************************************************************************)
(* What the properties below speak of.                                     *)
(***************************************************************************)
\* The decision calls of a log, in order.
CallsOf(l, phase) == SelectSeq(l, LAMBDA e : e.op = "call" /\ e.phase = phase)
RulesOf(l) == [n \in DOMAIN l |-> l[n].rule]
UpTo(k) == [n \in 1..k |-> n]

\* What the rule of a descriptor returns on a context, "none" when it has no
\* callable decision function.
RuleReturns(meta, c) ==
    IF meta.staticMethod # Undefined THEN CallStatic(meta.staticMethod, c)
    ELSE IF MemberKind(meta.voterClass, MethodNameOf(meta)) = "function"
    THEN CallMethod(meta.voterClass, MethodNameOf(meta), c)
    ELSE "none"

Normalizable(req) == getMethodContext(req).err = NoError
Started(i) == pc[i] # "idle"

\* Rule k of the pre-phase is the first that returns false on the request of
\* invocation i.
FirstPreDenial(i, k) ==
    /\ Started(i)
    /\ Normalizable(request[i])
    /\ k \in DOMAIN preMeta
    /\ \A j \in 1..(k - 1) : RuleReturns(preMeta[j], BuildContext(request[i])) = "true"
    /\ RuleReturns(preMeta[k], BuildContext(request[i])) = "false"

(***************************************************************************)
(* C1.  When pre-phase rule k is the first to return false, the invocation *)
(* evaluates rules 1..k in order, each once and nothing else: while it runs*)
(* its decision calls are a prefix of 1..k, the handler is never called and*)
(* no post-phase check starts, and it can only end rejected, with a        *)
(* VoterException, after exactly the calls 1..k.                           *)
(***************************************************************************)
C1_PreShortCircuit ==
    \A i \in Invocations : \A k \in DOMAIN preMeta :
        FirstPreDenial(i, k) =>
            LET calls == RulesOf(CallsOf(log[i], "pre")) IN
            /\ pc[i] \in {"pre", "rejected"}
            /\ handleCalls[i] = 0
            /\ handler[i].state = "idle"
            /\ tasks[i] = <<>>
            /\ Len(calls) <= k
            /\ calls = UpTo(Len(calls))
            /\ pc[i] = "rejected" =>
                  /\ calls = UpTo(k)
                  /\ rejection[i].type = "VoterException"

\* Scenario 5: two pre-phase rules, the second is the first to return false.
C1_Witness ==
    \E i \in Invocations :
        /\ Len(preMeta) = 2
        /\ FirstPreDenial(i, 2)
        /\ pc[i] = "rejected"
        /\ rejection[i].type = "VoterException"
        /\ RulesOf(CallsOf(log[i], "pre")) = <<1, 2>>

(***************************************************************************)
(* C2.  As claimed: every denial's reason is "<Phase>-authorization denied *)
(* by <ruleIdentity>", for voter rules and inline predicates alike, where  *)
(* the identity of a voter rule is <VoterClass>.<method> and that of an    *)
(* inline predicate is the predicate.                                      *)
(***************************************************************************)
RuleIdentity(meta) ==
    IF meta.staticMethod # Undefined THEN meta.staticMethod
    ELSE meta.voterClass \o "." \o MethodNameOf(meta)

PreDenied(i) == pc[i] = "rejected" /\ rejection[i].type = "VoterException"
PostDenied(task) == task.frame.at = "threw" /\ task.frame.err.type = "VoterException"
LastOf(l) == l[Len(l)]

LeavesData(meta) ==
    \/ meta.staticMethod = Undefined
    \/ \A d \in Data :
          StaticEffect(meta.staticMethod, [NoContext EXCEPT !.data = d]).data = d

NoRuleAssignsData ==
    /\ \A k \in DOMAIN preMeta : LeavesData(preMeta[k])
    /\ \A k \in DOMAIN postMeta : LeavesData(postMeta[k])

C3_VotedOnDeliveredValue ==
    \A i \in Invocations : \A t \in DOMAIN tasks[i] :
        (NoRuleAssignsData /\ tasks[i][t].fate = "delivered") =>
            \A n \in DOMAIN tasks[i][t].log :
                tasks[i][t].log[n].op = "call" =>
                    tasks[i][t].log[n].data = tasks[i][t].data

(***************************************************************************)
(* C4.  AND over the rules of both phases.  Only if: a value reaches the   *)
(* caller only when every pre-phase rule returned true and, for that       *)
(* value, every post-phase rule returned true or was skipped by supports.  *)
(* If: when the handler completed its output and every pre-phase rule      *)
(* returned true and every post-phase rule returned true or was skipped    *)
(* for every value, every value the handler emitted reached the caller.    *)
(***************************************************************************)
PrePassed(i) ==
    \A k \in DOMAIN preMeta :
        \E n \in DOMAIN log[i] :
            /\ log[i][n].op = "call" /\ log[i][n].phase = "pre"
            /\ log[i][n].rule = k /\ log[i][n].result = "true"

PostPassed(task) ==
    \A k \in DOMAIN postMeta :
        \E n \in DOMAIN task.log :
            /\ task.log[n].rule = k
            /\ \/ task.log[n].op = "call" /\ task.log[n].result = "true"
               \/ task.log[n].op = "supports" /\ task.log[n].result = "false"

\* The t-th value the handler emitted reached the caller.
Delivered(i, t) == \E n \in DOMAIN out[i].delivered : out[i].delivered[n].task = t

C4_AllRulesMustAllow ==
    \A i \in Invocations :
        /\ \A t \in DOMAIN handler[i].emitted :
              Delivered(i, t) =>
                  /\ PrePassed(i)
                  /\ Defined(postMeta) => PostPassed(tasks[i][t])
        /\ ( /\ handler[i].state = "completed"
             /\ PrePassed(i)
             /\ \A t \in DOMAIN tasks[i] : Finished(tasks[i][t]) /\ PostPassed(tasks[i][t]) )
           => \A t \in DOMAIN handler[i].emitted : Delivered(i, t)

\* One rule in each phase, both allow, and the value is the caller's.
C4_Witness ==
    \E i \in Invocations :
        /\ Len(preMeta) = 1 /\ Len(postMeta) = 1
        /\ handler[i].state = "completed"
        /\ handler[i].emitted # <<>>
        /\ PrePassed(i)
        /\ \A t \in DOMAIN tasks[i] : PostPassed(tasks[i][t])
        /\ \A t \in DOMAIN handler[i].emitted : Delivered(i, t)
        /\ out[i].state = "completed"

(***************************************************************************)
(* C5.  In the check of one emitted value, a decision call that returned   *)
(* false is the last thing that check does: nothing of a later rule is     *)
(* resolved, asked or called for that value, the check ends with a         *)
(* VoterException raised at that rule, and the value is not delivered.     *)
(***************************************************************************)
C5_PostShortCircuit ==
    \A i \in Invocations : \A t \in DOMAIN tasks[i] :
        LET task == tasks[i][t] IN
        \A n \in DOMAIN task.log :
            (task.log[n].op = "call" /\ task.log[n].result = "false") =>
                /\ n = Len(task.log)
                /\ task.frame.rule = task.log[n].rule
                /\ \/ task.frame.at \in {"awaitStatic", "awaitMethod"}
                   \/ /\ task.frame.at = "threw"
                      /\ task.frame.err.type = "VoterException"
                      /\ task.fate \in {"raised", "swallowed"}
                /\ ~Delivered(i, t)

\* Two post-phase rules, the first denied the value: the second was never
\* reached and the caller got the VoterException.
C5_Witness ==
    \E i \in Invocations : \E t \in DOMAIN tasks[i] :
        /\ Len(postMeta) = 2
        /\ PostDenied(tasks[i][t])
        /\ tasks[i][t].frame.rule = 1
        /\ tasks[i][t].fate = "raised"
        /\ out[i].state = "errored"
        /\ out[i].error.type = "VoterException"
        /\ out[i].delivered = <<>>

(***************************************************************************)
(* C6.  A post-phase voter rule whose supports returned false is skipped:  *)
(* its decision method is not called for that value, the check goes on     *)
(* with the next rule at once (as after a true result), and when the check *)
(* returns, the value goes to the caller as the handler emitted it (unless *)
(* the caller's stream has ended meanwhile).                               *)
(***************************************************************************)
C6_SupportsFalseSkips ==
    \A i \in Invocations : \A t \in DOMAIN tasks[i] :
        LET task == tasks[i][t] IN
        \A n \in DOMAIN task.log :
            (task.log[n].op = "supports" /\ task.log[n].result = "false") =>
                LET k == task.log[n].rule IN
                /\ \A m \in DOMAIN task.log :
                      ~(task.log[m].op = "call" /\ task.log[m].rule = k)
                /\ task.frame.rule > k
                /\ k < Len(postMeta) =>
                      /\ n < Len(task.log)
                      /\ task.log[n + 1].rule = k + 1
                      /\ task.log[n + 1].op \in {"call", "resolve"}
                /\ k = Len(postMeta) =>
                      /\ task.frame.at = "returned"
                      /\ task.fate \in {"delivered", "dropped"}
                /\ task.fate = "delivered" =>
                      \E d \in DOMAIN out[i].delivered :
                          out[i].delivered[d] = [task |-> t, value |-> handler[i].emitted[t]]

\* The test's CustomVoter: supports is false, vote would throw, and the
\* value comes through.
C6_Witness ==
    \E i \in Invocations : \E t \in DOMAIN tasks[i] :
        /\ \E k \in DOMAIN postMeta :
              /\ postMeta[k].voterClass = "CustomVoter"
              /\ postMeta[k].methodName = "vote"
        /\ \E n \in DOMAIN tasks[i][t].log :
              tasks[i][t].log[n].op = "supports" /\ tasks[i][t].log[n].result = "false"
        /\ tasks[i][t].fate = "delivered"
        /\ Delivered(i, t)

(***************************************************************************)
(* C7.  Rule k of a loop has looked its method up once the voter of rule k *)
(* is resolved and, in the post-phase, supports did not skip the rule.     *)
(***************************************************************************)
Resolved(l, phase, k) ==
    \E n \in DOMAIN l :
        /\ l[n].op = "resolve" /\ l[n].phase = phase /\ l[n].rule = k
        /\ l[n].result # "failed"

SkippedAt(l, k) ==
    \E n \in DOMAIN l :
        l[n].op = "supports" /\ l[n].rule = k /\ l[n].result = "false"

\* The voter member a descriptor names is absent.
MethodAbsent(meta) ==
    /\ meta.voterClass # Undefined
    /\ MemberKind(meta.voterClass, MethodNameOf(meta)) = "absent"

\* The pre-phase loop looked up a method that is absent.
PreLookupFailed(i, k) ==
    /\ k \in DOMAIN preMeta
    /\ MethodAbsent(preMeta[k])
    /\ Resolved(log[i], "pre", k)
    /\ ~(preFrame[i].at = "awaitVoter" /\ preFrame[i].rule = k)

\* The post-phase loop, checking one value, looked up a method that is absent.
PostLookupFailed(task, k) ==
    /\ k \in DOMAIN postMeta
    /\ MethodAbsent(postMeta[k])
    /\ Resolved(task.log, "post", k)
    /\ ~(task.frame.at = "awaitVoter" /\ task.frame.rule = k)
    /\ ~SkippedAt(task.log, k)

NotFoundError(meta) ==
    [type |-> "Error",
     message |-> "Method " \o MethodNameOf(meta) \o " not found in " \o meta.voterClass]

NoCalls(l) == \A n \in DOMAIN l : l[n].op # "call"

\* C7 as stated: when a rule's named method is absent on the resolved voter,
\* the invocation fails with "Method <name> not found in <Voter>", no
\* decision function of any rule has been invoked and the handler has not
\* been invoked.
C7_Original ==
    \A i \in Invocations :
        /\ \A k \in DOMAIN preMeta :
              PreLookupFailed(i, k) =>
                  /\ rejection[i] = NotFoundError(preMeta[k])
                  /\ NoCalls(log[i])
                  /\ handleCalls[i] = 0
        /\ \A t \in DOMAIN tasks[i] : \A k \in DOMAIN postMeta :
              PostLookupFailed(tasks[i][t], k) =>
                  /\ tasks[i][t].frame.err = NotFoundError(postMeta[k])
                  /\ NoCalls(log[i]) /\ NoCalls(tasks[i][t].log)
                  /\ handleCalls[i] = 0

\* C7 amended: the lookup of an absent method fails the evaluation with the
\* Error "Method <name> not found in <Voter>" before the decision function
\* of that rule or of a later rule is invoked (those of earlier rules have
\* been).  In the pre-phase intercept rejects with it and the handler is
\* never invoked; in the post-phase the handler has been invoked once and
\* the value under check is not delivered.
C7_MethodNotFound ==
    \A i \in Invocations :
        /\ \A k \in DOMAIN preMeta :
              PreLookupFailed(i, k) =>
                  /\ preFrame[i] = [at |-> "threw", rule |-> k, pending |-> "none",
                                    err |-> NotFoundError(preMeta[k])]
                  /\ pc[i] = "rejected"
                  /\ rejection[i] = NotFoundError(preMeta[k])
                  /\ RulesOf(CallsOf(log[i], "pre")) = UpTo(k - 1)
                  /\ handleCalls[i] = 0
                  /\ tasks[i] = <<>> /\ out[i].delivered = <<>>
        /\ \A t \in DOMAIN tasks[i] : \A k \in DOMAIN postMeta :
              PostLookupFailed(tasks[i][t], k) =>
                  /\ tasks[i][t].frame = [at |-> "threw", rule |-> k, pending |-> "none",
                                          err |-> NotFoundError(postMeta[k])]
                  /\ \A n \in DOMAIN tasks[i][t].log :
                        tasks[i][t].log[n].op = "call" => tasks[i][t].log[n].rule < k
                  /\ handleCalls[i] = 1
                  /\ ~Delivered(i, t)
                  /\ tasks[i][t].fate = "raised" =>
                        /\ out[i].state = "errored"
                        /\ out[i].error = NotFoundError(postMeta[k])

\* A post-phase rule names a method TestVoter has not: the handler ran, its
\* value was withheld and the caller got the Error.
C7_Witness ==
    \E i \in Invocations : \E t \in DOMAIN tasks[i] :
        /\ PostLookupFailed(tasks[i][t], 1)
        /\ tasks[i][t].fate = "raised"
        /\ handleCalls[i] = 1
        /\ out[i].error = Error("Method nonExistentMethod not found in TestVoter")
        /\ out[i].delivered = <<>>

(***************************************************************************)
(* C8.  An evaluation that reaches a voter rule whose named member is      *)
(* absent or not a function, in either phase and whatever supports         *)
(* returns, ends in a configuration error: it does not go on to a later    *)
(* rule, does not return, and does not end in a VoterException.            *)
(***************************************************************************)
Misnamed(meta) ==
    /\ meta.voterClass # Undefined
    /\ MemberKind(meta.voterClass, MethodNameOf(meta)) # "function"

ConfigurationError(meta) ==
    IF MethodAbsent(meta) THEN NotFoundError(meta)
    ELSE [type |-> "TypeError",
          message |-> MethodNameOf(meta) \o " is not a function in " \o meta.voterClass]

C8_MisnamedMethodAlwaysFails ==
    \A i \in Invocations :
        /\ \A k \in DOMAIN preMeta :
              ( /\ Misnamed(preMeta[k])
                /\ Resolved(log[i], "pre", k)
                /\ ~(preFrame[i].at = "awaitVoter" /\ preFrame[i].rule = k) )
              => /\ preFrame[i].at = "threw" /\ preFrame[i].rule = k
                 /\ rejection[i] = ConfigurationError(preMeta[k])
        /\ \A t \in DOMAIN tasks[i] : \A k \in DOMAIN postMeta :
              ( /\ Misnamed(postMeta[k])
                /\ Resolved(tasks[i][t].log, "post", k)
                /\ ~(tasks[i][t].frame.at = "awaitVoter" /\ tasks[i][t].frame.rule = k) )
              => /\ tasks[i][t].frame.at = "threw" /\ tasks[i][t].frame.rule = k
                 /\ tasks[i][t].frame.err = ConfigurationError(postMeta[k])
                 /\ ~Delivered(i, t)

(***************************************************************************)
(* C9.  With no metadata in either phase intercept is a pass-through: it   *)
(* calls next.handle() once and returns that stream unpiped, whatever the  *)
(* request is (one whose context could not be built included); it builds   *)
(* no context, resolves no voter, calls no rule, and the caller gets the   *)
(* handler's values, completion and error as they are.                     *)
(***************************************************************************)
C9_PassThrough ==
    \A i \in Invocations :
        (Started(i) /\ preMeta = <<>> /\ postMeta = <<>>) =>
            /\ pc[i] = "raw"
            /\ handleCalls[i] = 1
            /\ log[i] = <<LogEntry("handle", "", 0, Undefined, "")>>
            /\ ctx[i] = NoContext
            /\ preFrame[i] = NoFrame
            /\ tasks[i] = <<>>
            /\ rejection[i] = NoError
            /\ out[i].delivered =
                  [n \in DOMAIN handler[i].emitted |->
                      [task |-> n, value |-> handler[i].emitted[n]]]
            /\ handler[i].state = "active" => out[i].state = "open"
            /\ handler[i].state = "completed" => out[i].state = "completed"
            /\ handler[i].state = "errored" =>
                  out[i].state = "errored" /\ out[i].error = HandlerError

\* A GraphQL request whose operation the context builder rejects, passed
\* through with the two values of its handler.
C9_Witness ==
    \E i \in Invocations :
        /\ preMeta = <<>> /\ postMeta = <<>>
        /\ ~Normalizable(request[i])
        /\ pc[i] = "raw"
        /\ Len(out[i].delivered) = 2
        /\ out[i].state = "completed"

(***************************************************************************)
(* C10.  What the caller is delivered is what the handler emitted: the     *)
(* n-th delivery of a value is that of the handler's emission it was       *)
(* checked for, whatever the rules returned and whatever a rule assigned   *)
(* to context.data.                                                        *)
(***************************************************************************)
C10_OutputUnchanged ==
    \A i \in Invocations : \A n \in DOMAIN out[i].delivered :
        LET d == out[i].delivered[n] IN
        /\ d.task \in DOMAIN handler[i].emitted
        /\ d.value = handler[i].emitted[d.task]
        /\ \A m \in DOMAIN out[i].delivered : m # n => out[i].delivered[m].task # d.task

\* A post-phase predicate assigned context.data another value than the one
\* emitted; the caller still got the emitted one.
C10_Witness ==
    \E i \in Invocations : \E n \in DOMAIN out[i].delivered :
        /\ \E k \in DOMAIN postMeta : postMeta[k].staticMethod = "overwriteData"
        /\ out[i].delivered[n].value = "allowFalse"
        /\ handler[i].emitted[out[i].delivered[n].task] = "allowFalse"
        /\ ctx[i].data = "allowTrue"
        /\ out[i].state = "completed"

(***************************************************************************)
(* C11.  Rules are evaluated in registration order.  A registration puts   *)
(* its descriptor behind those already on the handler and leaves them as   *)
(* they are, so the metadata lists the descriptors in the order of the     *)
(* decorator calls, whichever of the two decorators of a phase made them.  *)
(* A loop takes the descriptors in that order: in the pre-phase, and in    *)
(* the post-phase check of one emitted value, everything done for a rule   *)
(* comes after everything done for the rules registered before it, and     *)
(* those rules have then returned true or been skipped.                    *)
(***************************************************************************)
\* The entries of a log that belong to a rule, in order.
RuleEntries(l) == SelectSeq(l, LAMBDA e : e.rule > 0)

\* A rule that has an entry in l and was left behind returned true or was
\* skipped; no rule is called twice.
InRegistrationOrder(l, frame) ==
    LET es == RuleEntries(l) IN
    /\ \A n, m \in DOMAIN es : n < m => es[n].rule <= es[m].rule
    /\ \A n, m \in DOMAIN es :
          (n < m /\ es[n].op = "call" /\ es[m].op = "call") => es[n].rule < es[m].rule
    /\ \A n \in DOMAIN es : es[n].rule <= frame.rule
    /\ \A n \in DOMAIN es :
          ( /\ es[n].op = "call"
            /\ \/ es[n].rule < frame.rule
               \/ \E m \in DOMAIN es : es[m].rule > es[n].rule )
          => es[n].result = "true"

C11_EvaluatedInOrder ==
    \A i \in Invocations :
        /\ InRegistrationOrder(log[i], preFrame[i])
        /\ \A t \in DOMAIN tasks[i] :
              InRegistrationOrder(tasks[i][t].log, tasks[i][t].frame)

\* What a step does to the metadata of one phase.
AppendsOrKeeps(before, after) ==
    \/ after = before
    \/ /\ Len(after) = Len(before) + 1
       /\ SubSeq(after, 1, Len(before)) = before

C11_RegisteredInOrder ==
    /\ AppendsOrKeeps(preMeta, preMeta')
    /\ AppendsOrKeeps(postMeta, postMeta')

C11_RegistrationOrder ==
    []C11_EvaluatedInOrder /\ [][C11_RegisteredInOrder]_vars

\* TestVoter.canCreate registered with PreAuthVoterMethod, then an inline
\* predicate with PreAuthVoter: both were called, in that order, and the
\* handler ran.
C11_Witness ==
    \E i \in Invocations :
        /\ Len(preMeta) = 2
        /\ preMeta[1].voterClass = "TestVoter" /\ preMeta[1].methodName = "canCreate"
        /\ preMeta[2].staticMethod = "allowAll"
        /\ RulesOf(CallsOf(log[i], "pre")) = <<1, 2>>
        /\ handleCalls[i] = 1

(***************************************************************************)
(* C12.  As claimed: within one invocation at most one decision function   *)
(* is in progress (called and its promise not yet resolved) at any moment, *)
(* the post-phase checks of several emitted values included.               *)
(***************************************************************************)
\* A loop is suspended in the call of a decision function.
Deciding(frame) == frame.at \in {"awaitStatic", "awaitMethod"}

InProgress(i) ==
    {0 : x \in IF Deciding(preFrame[i]) THEN {0} ELSE {}}
        \cup {t \in DOMAIN tasks[i] : Deciding(tasks[i][t].frame)}

C12_OneEvaluationAtATime ==
    \A i \in Invocations : Cardinality(InProgress(i)) <= 1

(***************************************************************************)
(* C13.  As claimed: the voterContext of an invocation is written by the   *)
(* interceptor exactly once: its data is assigned one time, after the      *)
(* handler produced output and before the post-phase rules run, and its    *)
(* other fields stay what intercept built them from the request.           *)
(***************************************************************************)
\* The projections of invocation i that assigned voterContext.data.
DataWrites(i) ==
    {t \in DOMAIN tasks[i] :
        \E n \in DOMAIN tasks[i][t].log : tasks[i][t].log[n].op = "setData"}

\* Every field but data is as built.
BuiltFieldsKept(i) ==
    (Started(i) /\ ctx[i] # NoContext) =>
        [ctx[i] EXCEPT !.data = Null] = BuildContext(request[i])

C13_DataWrittenOnce ==
    \A i \in Invocations :
        /\ Cardinality(DataWrites(i)) <= 1
        /\ tasks[i] # <<>> => Cardinality(DataWrites(i)) = 1
        /\ DataWrites(i) # {} => handler[i].emitted # <<>>
        /\ BuiltFieldsKept(i)

(***************************************************************************)
(* C14.  Every pre-phase decision function is called with context.data     *)
(* null; context.data is non-null only once the handler has emitted; and   *)
(* every post-phase decision function (and supports) is called with        *)
(* context.data holding a value the handler emitted, as long as no rule    *)
(* itself assigns context.data.                                            *)
(***************************************************************************)
Emitted(i) == {handler[i].emitted[n] : n \in DOMAIN handler[i].emitted}

C14_DataNullThenOutput ==
    \A i \in Invocations :
        /\ \A n \in DOMAIN log[i] :
              log[i][n].phase = "pre" => log[i][n].data = Null
        /\ handler[i].emitted = <<>> => ctx[i].data \in {Null, Undefined}
        /\ NoRuleAssignsData =>
              \A t \in DOMAIN tasks[i] : \A n \in DOMAIN tasks[i][t].log :
                  /\ tasks[i][t].log[n].phase = "post"
                  /\ tasks[i][t].log[n].data \in Emitted(i)

\* A pre-phase voter called with null, then a post-phase voter called with
\* the handler's value.
C14_Witness ==
    \E i \in Invocations :
        /\ NoRuleAssignsData
        /\ \E n \in DOMAIN log[i] :
              /\ log[i][n].op = "call" /\ log[i][n].phase = "pre"
              /\ log[i][n].data = Null
        /\ \E t \in DOMAIN tasks[i] : \E n \in DOMAIN tasks[i][t].log :
              /\ tasks[i][t].log[n].op = "call"
              /\ tasks[i][t].log[n].data = handler[i].emitted[t]
              /\ tasks[i][t].fate = "delivered"

(***************************************************************************)
(* C15.  As claimed: once the handler has raised its own error, the caller *)
(* has that error unchanged, no post-phase rule has been evaluated, no     *)
(* voter has been resolved for the post-phase and context.data has not     *)
(* been set.                                                               *)
(***************************************************************************)
HandlerRaised(i) == handler[i].state = "errored"

PostPhaseBypassed(i) ==
    /\ tasks[i] = <<>>
    /\ ctx[i].data \in {Null, Undefined}
    /\ out[i].delivered = <<>>

C15_Original ==
    \A i \in Invocations :
        HandlerRaised(i) =>
            /\ out[i].state = "errored" /\ out[i].error = HandlerError
            /\ PostPhaseBypassed(i)

\* C15 amended: the handler's error reaches the caller unchanged; when the
\* handler raised it without having emitted a value, no post-phase rule has
\* been evaluated, no voter resolved for the post-phase and context.data is
\* still null.  (Values emitted before the error have been through the
\* post-phase, and a check still pending when the error comes runs on.)
C15_HandlerErrorPassesThrough ==
    \A i \in Invocations :
        HandlerRaised(i) =>
            /\ out[i].state = "errored" /\ out[i].error = HandlerError
            /\ rejection[i] = NoError
            /\ handler[i].emitted = <<>> => PostPhaseBypassed(i)
            /\ Len(tasks[i]) <= Len(handler[i].emitted)

\* Post-phase rules are registered and the handler raised at once.
C15_Witness ==
    \E i \in Invocations :
        /\ Len(postMeta) = 2
        /\ pc[i] = "piped"
        /\ HandlerRaised(i)
        /\ handler[i].emitted = <<>>
        /\ out[i].error = HandlerError
        /\ ctx[i].data = Null

(***************************************************************************)
(* C16.  As claimed: once the caller has gone away, no step of the         *)
(* invocation starts the evaluation of another rule, calls next.handle()   *)
(* or delivers a value.  (The rule that was suspended may finish.)         *)
(***************************************************************************)
Cancelled(i) == out[i].state = "unsubscribed"

\* The entries a step added to a log are of the rule the loop was at.
OnlyOfRule(before, after, frame) ==
    \A n \in DOMAIN after :
        n > Len(before) => after[n].rule = frame.rule /\ after[n].op # "handle"

C16_NoWorkAfterCancel ==
    \A i \in Invocations :
        Cancelled(i) =>
            /\ OnlyOfRule(log[i], log'[i], preFrame[i])
            /\ handleCalls'[i] = handleCalls[i]
            /\ out'[i].delivered = out[i].delivered
            /\ \A t \in DOMAIN tasks[i] :
                  OnlyOfRule(tasks[i][t].log, tasks'[i][t].log, tasks[i][t].frame)

C16_CancellationPropagates == [][C16_NoWorkAfterCancel]_vars

(***************************************************************************)
(* C17.  Each invocation has its own voterContext: whatever the other      *)
(* invocation in flight is doing, the context of invocation i holds the    *)
(* args, principal, method name and operation type of i's request, every   *)
(* pre-phase call of i returned what the rule returns on i's request, and  *)
(* every post-phase call of i saw a value i's handler emitted and returned *)
(* what the rule returns on i's request with that value.                   *)
(***************************************************************************)
OwnContext(i, data) == [BuildContext(request[i]) EXCEPT !.data = data]

C17_ContextPerInvocation ==
    \A i \in Invocations :
        /\ BuiltFieldsKept(i)
        /\ \A n \in DOMAIN log[i] :
              log[i][n].op = "call" =>
                  /\ log[i][n].data = Null
                  /\ log[i][n].result =
                        RuleReturns(preMeta[log[i][n].rule], OwnContext(i, Null))
        /\ \A t \in DOMAIN tasks[i] : \A n \in DOMAIN tasks[i][t].log :
              LET e == tasks[i][t].log[n] IN
              /\ e.data \in Emitted(i)
              /\ e.op = "call" =>
                    e.result = RuleReturns(postMeta[e.rule], OwnContext(i, e.data))

\* Two invocations in flight with different principals and different data:
\* the admin was let in and the plain user was not yet turned away while
\* the admin's value was under check.
C17_Witness ==
    /\ Invocations = {1, 2}
    /\ request[1].user = AdminUser /\ request[2].user = PlainUser
    /\ Len(preMeta) = 1 /\ Len(postMeta) = 1
    /\ pc[1] = "piped" /\ pc[2] = "pre"
    /\ preFrame[2].at = "awaitMethod"
    /\ \E t \in DOMAIN tasks[1] : tasks[1][t].frame.at = "awaitMethod"
    /\ ctx[1].auth = AdminUser /\ ctx[2].auth = PlainUser
    /\ ctx[1].data = "allowTrue" /\ ctx[2].data = Null

(***************************************************************************)
(* C18.  Pre-phase, handler, post-phase, in that order.  next.handle() is  *)
(* called only when every pre-phase rule has returned true, and nothing of *)
(* the pre-phase happens after it; a post-phase check exists only for a    *)
(* value the handler has emitted; and an invocation whose pre-phase denied *)
(* or failed never calls the handler and never starts a post-phase check.  *)
(***************************************************************************)
C18_PhaseOrder ==
    \A i \in Invocations :
        /\ \A n \in DOMAIN log[i] :
              log[i][n].op = "handle" =>
                  /\ n = Len(log[i])
                  /\ PrePassed(i)
                  /\ preFrame[i].at \in {"returned", "none"}
        /\ handleCalls[i] > 0 =>
              /\ handleCalls[i] = 1
              /\ pc[i] \in {"raw", "piped"}
              /\ log[i] # <<>> /\ log[i][Len(log[i])].op = "handle"
        /\ pc[i] \in {"idle", "pre", "rejected"} =>
              /\ handleCalls[i] = 0
              /\ handler[i].state = "idle" /\ handler[i].emitted = <<>>
              /\ tasks[i] = <<>>
              /\ out[i].delivered = <<>>
        /\ Len(tasks[i]) <= Len(handler[i].emitted)
        /\ \A t \in DOMAIN tasks[i] :
              /\ tasks[i][t].data = handler[i].emitted[t]
              /\ tasks[i][t].log[1] = LogEntry("setData", "post", 0, tasks[i][t].data, "")

\* The test "should fail if pre-authorization denies": a pre-phase rule
\* denied, a post-phase rule is registered and was never evaluated.
C18_Witness ==
    \E i \in Invocations :
        /\ Len(preMeta) = 1 /\ Len(postMeta) = 1
        /\ pc[i] = "rejected"
        /\ rejection[i].type = "VoterException"
        /\ handleCalls[i] = 0
        /\ tasks[i] = <<>>

(***************************************************************************)
(* C19.  Every resolution of a voter gives the container's instance when   *)
(* the voter type is a provider, and a newly constructed one only when it  *)
(* is not; and no denial comes out of a resolution: an evaluation that     *)
(* ended in a VoterException called a decision function that returned     *)
(* false.                                                                  *)
(***************************************************************************)
\* The resolutions in a log are what the registry and the constructors give.
ResolvedAsRegistered(l, metadata) ==
    \A n \in DOMAIN l :
        l[n].op = "resolve" =>
            LET cls == metadata[l[n].rule].voterClass IN
            /\ l[n].result = "shared" <=> cls \in Providers
            /\ l[n].result = "constructed" <=> (cls \notin Providers /\ cls # "BrokenVoter")

\* A loop that ended in a denial was denied by a decision.
DeniedByDecision(l, frame) ==
    (frame.at = "threw" /\ frame.err.type = "VoterException") =>
        \E n \in DOMAIN l :
            l[n].op = "call" /\ l[n].rule = frame.rule /\ l[n].result = "false"

C19_RegistryFirst ==
    \A i \in Invocations :
        /\ ResolvedAsRegistered(log[i], preMeta)
        /\ DeniedByDecision(log[i], preFrame[i])
        /\ \A t \in DOMAIN tasks[i] :
              /\ ResolvedAsRegistered(tasks[i][t].log, postMeta)
              /\ DeniedByDecision(tasks[i][t].log, tasks[i][t].frame)

\* For one value the provider TestVoter came from the container and then
\* SimpleVoter, no provider, was constructed, and its method called.
C19_Witness ==
    \E i \in Invocations : \E t \in DOMAIN tasks[i] :
        LET l == tasks[i][t].log IN
        /\ \E n \in DOMAIN l :
              /\ l[n].op = "resolve" /\ l[n].result = "shared"
              /\ postMeta[l[n].rule].voterClass = "TestVoter"
        /\ \E n \in DOMAIN l :
              /\ l[n].op = "resolve" /\ l[n].result = "constructed"
              /\ postMeta[l[n].rule].voterClass = "SimpleVoter"
        /\ tasks[i][t].frame.at = "awaitMethod"

(***************************************************************************)
(* C20.  A resolution fails exactly when the voter type is no provider and *)
(* its construction fails too.  The failure ends the evaluation at that    *)
(* rule with an error that is no VoterException, before the rule's supports*)
(* or decision method is called and before any later rule; in the          *)
(* pre-phase intercept rejects with it and never calls the handler, in the *)
(* post-phase the value under check is not delivered.                      *)
(***************************************************************************)
\* The loop resolved the voter of rule k and the resolution failed.
ResolutionFailed(l, frame, k) ==
    /\ \E n \in DOMAIN l : l[n].op = "resolve" /\ l[n].rule = k /\ l[n].result = "failed"
    /\ ~(frame.at = "awaitVoter" /\ frame.rule = k)

FailsOnlyUnconstructible(l, metadata) ==
    \A n \in DOMAIN l :
        l[n].op = "resolve" =>
            LET cls == metadata[l[n].rule].voterClass IN
            l[n].result = "failed" <=> (cls \notin Providers /\ cls = "BrokenVoter")

\* The loop stopped at rule k with an error that is no denial.
AbortedAt(l, frame, k) ==
    /\ frame.at = "threw" /\ frame.rule = k
    /\ frame.err.type \notin {"VoterException", "none"}
    /\ \A n \in DOMAIN l : l[n].rule <= k
    /\ \A n \in DOMAIN l : l[n].rule = k => l[n].op = "resolve"

C20_ResolutionFailure ==
    \A i \in Invocations :
        /\ FailsOnlyUnconstructible(log[i], preMeta)
        /\ \A k \in DOMAIN preMeta :
              ResolutionFailed(log[i], preFrame[i], k) =>
                  /\ AbortedAt(log[i], preFrame[i], k)
                  /\ pc[i] = "rejected"
                  /\ rejection[i] = preFrame[i].err
                  /\ handleCalls[i] = 0
        /\ \A t \in DOMAIN tasks[i] :
              /\ FailsOnlyUnconstructible(tasks[i][t].log, postMeta)
              /\ \A k \in DOMAIN postMeta :
                    ResolutionFailed(tasks[i][t].log, tasks[i][t].frame, k) =>
                        /\ AbortedAt(tasks[i][t].log, tasks[i][t].frame, k)
                        /\ ~Delivered(i, t)
                        /\ tasks[i][t].fate = "raised" =>
                              out[i].error.type \notin {"VoterException", "none"}

\* BrokenVoter is the first of two pre-phase rules: intercept rejected with
\* the constructor's error, the second rule and the handler untouched.
C20_Witness ==
    \E i \in Invocations :
        /\ Len(preMeta) = 2
        /\ preMeta[1].voterClass = "BrokenVoter"
        /\ ResolutionFailed(log[i], preFrame[i], 1)
        /\ pc[i] = "rejected"
        /\ rejection[i].type = "Error"
        /\ handleCalls[i] = 0

(***************************************************************************)
(* C21.  For an http request the args of the context are params, query and *)
(* body merged, the later source winning: a key has the body's value if    *)
(* the body has the key, else the query's if the query has it, else the    *)
(* params'; a key that is in none of them is not in args.                  *)
(***************************************************************************)
\* The context of invocation i has been built.
Built(i) == Started(i) /\ ctx[i] # NoContext

C21_HttpArgsMerged ==
    \A i \in Invocations :
        (Built(i) /\ request[i].type = "http") =>
            LET r == request[i]
                args == ctx[i].args
            IN  /\ DOMAIN args = DOMAIN r.params \cup DOMAIN r.query \cup DOMAIN r.body
                /\ \A k \in DOMAIN args :
                      args[k] = IF k \in DOMAIN r.body THEN r.body[k]
                                ELSE IF k \in DOMAIN r.query THEN r.query[k]
                                ELSE r.params[k]

\* All three sources have "id", only params and query have "name": a rule
\* was called with id from the body and name from the query.
C21_Witness ==
    \E i \in Invocations :
        /\ request[i].type = "http"
        /\ request[i].params = [k \in Keys |-> "param"]
        /\ request[i].query = [k \in Keys |-> "query"]
        /\ request[i].body = [k \in {"id"} |-> "body"]
        /\ ctx[i].args = [k \in Keys |-> IF k = "id" THEN "body" ELSE "query"]
        /\ \E n \in DOMAIN log[i] : log[i][n].op = "call"

(***************************************************************************)
(* C22.  When at least one rule is registered and the GraphQL operation of *)
(* the request is none of query, mutation and subscription, the invocation *)
(* is rejected with Error "Unknown GraphQL operation type: <operation>";   *)
(* no context is built, no voter is resolved, no supports and no decision  *)
(* function is called, and next.handle() is not called.                    *)
(***************************************************************************)
UnknownOperation(req) ==
    /\ req.type = "graphql"
    /\ req.operation \notin {"query", "mutation", "subscription"}

C22_UnknownOperationRejected ==
    \A i \in Invocations :
        ( /\ Started(i)
          /\ Len(preMeta) + Len(postMeta) >= 1
          /\ UnknownOperation(request[i]) ) =>
            /\ pc[i] = "rejected"
            /\ rejection[i] =
                  [type |-> "Error",
                   message |-> "Unknown GraphQL operation type: " \o request[i].operation]
            /\ log[i] = <<LogEntry("normalize", "", 0, Undefined, "throw")>>
            /\ ctx[i] = NoContext
            /\ preFrame[i] = NoFrame
            /\ handleCalls[i] = 0
            /\ handler[i].state = "idle"
            /\ tasks[i] = <<>>
            /\ out[i].delivered = <<>>

\* A fragment operation arrived at a handler with a pre and a post rule.
C22_Witness ==
    \E i \in Invocations :
        /\ request[i].type = "graphql"
        /\ request[i].operation = "fragment"
        /\ Len(preMeta) = 1
        /\ Len(postMeta) = 1
        /\ pc[i] = "rejected"
        /\ rejection[i].message = "Unknown GraphQL operation type: fragment"

(***************************************************************************)
(* C23.  The auth of the context every rule is given is the user of the    *)
(* request, as it is there: the same id and role when a user is attached,  *)
(* and no user when none is attached.  It stays so for the whole           *)
(* invocation, through both phases.                                        *)
(***************************************************************************)
C23_AuthIsRequestUser ==
    \A i \in Invocations :
        Built(i) =>
            /\ ctx[i].auth = request[i].user
            /\ request[i].user = NoUser => ~ctx[i].auth.present

\* A rule has been called for a request with no user attached.
C23_Witness ==
    \E i \in Invocations :
        /\ request[i].user = NoUser
        /\ Built(i)
        /\ ~ctx[i].auth.present
        /\ \E n \in DOMAIN log[i] : log[i][n].op = "call"

(***************************************************************************)
(* C24.  For a GraphQL query, mutation or subscription the args of the     *)
(* context are the arguments of the call as they are, nothing of the       *)
(* request's params, query or body added; methodName is the field name of  *)
(* the call (not the name of the resolver method) and operationType is its *)
(* operation.                                                              *)
(***************************************************************************)
C24_GraphQLContext ==
    \A i \in Invocations :
        (Built(i) /\ request[i].type = "graphql") =>
            /\ ctx[i].args = request[i].gqlArgs
            /\ ctx[i].methodName = request[i].fieldName
            /\ ctx[i].operationType = request[i].operation
            /\ ctx[i].operationType \in {"query", "mutation", "subscription"}

\* A subscription whose request has a body with both keys and whose call
\* has the argument id only: a rule was called with that argument alone.
C24_Witness ==
    \E i \in Invocations :
        /\ request[i].type = "graphql"
        /\ request[i].operation = "subscription"
        /\ request[i].body = [k \in Keys |-> "body"]
        /\ request[i].handlerName # request[i].fieldName
        /\ ctx[i].args = [k \in {"id"} |-> "arg"]
        /\ ctx[i].methodName = "user"
        /\ ctx[i].operationType = "subscription"
        /\ \E n \in DOMAIN log[i] : log[i][n].op = "call"

(***************************************************************************)
(* C25.  A decorator appends one descriptor at the end of the list of the  *)
(* handler and phase it decorates: every step changes at most one of the   *)
(* four lists (pre and post of the invoked handler, pre and post of the    *)
(* other handler), the one it changes gets exactly one entry more, after   *)
(* the entries it had, which stay as they were and where they were; and a  *)
(* step of an invocation, from intercept on, changes no list.              *)
(***************************************************************************)
\* after is before with exactly one entry added at its end.
OneAppended(before, after) ==
    /\ Len(after) = Len(before) + 1
    /\ \A n \in DOMAIN before : after[n] = before[n]

C25_Step ==
    LET before == <<preMeta, postMeta, otherMeta.pre, otherMeta.post>>
        after == <<preMeta', postMeta', otherMeta'.pre, otherMeta'.post>>
        changed == {n \in 1..4 : after[n] # before[n]}
    IN  /\ Cardinality(changed) <= 1
        /\ \A n \in changed : OneAppended(before[n], after[n])
        /\ (\E i \in Invocations : pc'[i] # "idle") => changed = {}

C25_AppendOnlyAndLocal == [][C25_Step]_vars

\* Both handlers have a rule in each phase, and an invocation of the first
\* ran its pre rule, the handler and its post rule.
C25_Witness ==
    /\ Len(preMeta) = 1
    /\ Len(postMeta) = 1
    /\ Len(otherMeta.pre) = 1
    /\ Len(otherMeta.post) = 1
    /\ otherMeta.pre # preMeta
    /\ otherMeta.post # postMeta
    /\ \E i \in Invocations :
          /\ CallsOf(log[i], "pre") # <<>>
          /\ handleCalls[i] = 1
          /\ \E t \in DOMAIN tasks[i] : CallsOf(tasks[i][t].log, "post") # <<>>

(***************************************************************************)
(* C26.  Every descriptor of every list is of exactly one kind and has one *)
(* callable decision function: it has either a voterClass, which is a      *)
(* voter class whose named method is a function, or a staticMethod; and a  *)
(* predicate given to PreAuthVoter or PostAuthVoter, arrow function or     *)
(* function declared with the function keyword, is kept as staticMethod    *)
(* and is what an invocation whose context was built calls, no instance   *)
(* being resolved for it.                                                  *)
(***************************************************************************)
InlineFunctions == ArrowFunctions \cup OrdinaryFunctions

AllDescriptors ==
    {preMeta[n] : n \in DOMAIN preMeta} \cup {postMeta[n] : n \in DOMAIN postMeta}
    \cup {otherMeta.pre[n] : n \in DOMAIN otherMeta.pre}
    \cup {otherMeta.post[n] : n \in DOMAIN otherMeta.post}

OneKind(meta) ==
    \/ /\ meta.voterClass \in VoterClasses
       /\ meta.staticMethod = Undefined
       /\ meta.methodName # Undefined
       /\ MemberKind(meta.voterClass, meta.methodName) = "function"
    \/ /\ meta.staticMethod \in InlineFunctions
       /\ meta.voterClass = Undefined
       /\ meta.methodName = Undefined

\* The first pre rule holds an inline function: it was called, and no
\* instance was resolved for it.
FirstPreIsInline ==
    /\ preMeta # <<>>
    /\ \/ preMeta[1].staticMethod \in InlineFunctions
       \/ preMeta[1].voterClass \in InlineFunctions

C26_TwoKindsOneFunction ==
    /\ \A meta \in AllDescriptors : OneKind(meta)
    /\ \A i \in Invocations :
          (Built(i) /\ FirstPreIsInline) =>
              /\ \E n \in DOMAIN log[i] :
                    /\ log[i][n].op = "call"
                    /\ log[i][n].phase = "pre"
                    /\ log[i][n].rule = 1
              /\ \A n \in DOMAIN log[i] :
                    ~(log[i][n].op = "resolve" /\ log[i][n].rule = 1)

UnsupportedInPre(meta) ==
    /\ meta.voterClass # Undefined
    /\ HasSupports(meta.voterClass)
    /\ ~Supports(meta.voterClass, Null)
    /\ MemberKind(meta.voterClass, MethodNameOf(meta)) = "function"

C28_PreIgnoresSupports ==
    \A i \in Invocations :
        /\ \A n \in DOMAIN log[i] : log[i][n].op # "supports"
        /\ \A k \in DOMAIN preMeta :
              LET meta == preMeta[k]
                  returned == CallMethod(meta.voterClass, MethodNameOf(meta),
                                         BuildContext(request[i]))
              IN  ( /\ UnsupportedInPre(meta)
                    /\ Resolved(log[i], "pre", k)
                    /\ ~(preFrame[i].at = "awaitVoter" /\ preFrame[i].rule = k) )
                  => /\ \E n \in DOMAIN log[i] :
                           log[i][n] = LogEntry("call", "pre", k, Null, returned)
                     /\ ( /\ returned = "false"
                          /\ ~(preFrame[i].at = "awaitMethod" /\ preFrame[i].rule = k) )
                        => /\ pc[i] = "rejected"
                           /\ rejection[i] =
                                 VoterException("Pre-authorization denied by "
                                                \o meta.voterClass \o "."
                                                \o MethodNameOf(meta))
                           /\ handleCalls[i] = 0

\* UserVoter, whose supports(null) is false, registered with PreAuthVoter:
\* vote was called, returned false, and the invocation was denied by it.
C28_Witness ==
    \E i \in Invocations :
        /\ preMeta = <<[voterClass |-> "UserVoter", methodName |-> "vote",
                        staticMethod |-> Undefined]>>
        /\ ~Supports("UserVoter", ctx[i].data)
        /\ \E n \in DOMAIN log[i] : log[i][n] = LogEntry("call", "pre", 1, Null, "false")
        /\ pc[i] = "rejected"
        /\ rejection[i] = VoterException("Pre-authorization denied by UserVoter.vote")

(***************************************************************************)
(* C29.  When a loop looks up the member a voter rule names (in the        *)
(* pre-phase once the voter is resolved, in the post-phase once supports   *)
(* has not returned false), a member that is absent makes it throw Error   *)
(* "Method <name> not found in <Voter>", and a member that is there but is *)
(* no function makes it throw TypeError "<name> is not a function in       *)
(* <Voter>"; in both cases the rule's method is not called and what is     *)
(* thrown is no VoterException.                                            *)
(***************************************************************************)
LookupReachedPre(i, k) ==
    /\ Resolved(log[i], "pre", k)
    /\ ~(preFrame[i].at = "awaitVoter" /\ preFrame[i].rule = k)

LookupReachedPost(task, k) ==
    /\ Resolved(task.log, "post", k)
    /\ ~(task.frame.at = "awaitVoter" /\ task.frame.rule = k)
    /\ ~SkippedAt(task.log, k)

LookupFailure(meta) ==
    IF MemberKind(meta.voterClass, MethodNameOf(meta)) = "absent"
    THEN [type |-> "Error",
          message |-> "Method " \o MethodNameOf(meta) \o " not found in "
                      \o meta.voterClass]
    ELSE [type |-> "TypeError",
          message |-> MethodNameOf(meta) \o " is not a function in "
                      \o meta.voterClass]

NotCalled(l, k) == \A n \in DOMAIN l : ~(l[n].op = "call" /\ l[n].rule = k)

C29_LookupFailures ==
    \A i \in Invocations :
        /\ \A k \in DOMAIN preMeta :
              (Misnamed(preMeta[k]) /\ LookupReachedPre(i, k)) =>
                  /\ preFrame[i].at = "threw"
                  /\ preFrame[i].rule = k
                  /\ pc[i] = "rejected"
                  /\ rejection[i] = LookupFailure(preMeta[k])
                  /\ rejection[i].type # "VoterException"
                  /\ NotCalled(log[i], k)
        /\ \A t \in DOMAIN tasks[i] : \A k \in DOMAIN postMeta :
              (Misnamed(postMeta[k]) /\ LookupReachedPost(tasks[i][t], k)) =>
                  /\ tasks[i][t].frame.at = "threw"
                  /\ tasks[i][t].frame.rule = k
                  /\ tasks[i][t].frame.err = LookupFailure(postMeta[k])
                  /\ tasks[i][t].frame.err.type # "VoterException"
                  /\ NotCalled(tasks[i][t].log, k)

\* A post rule names UserVoter.logger: for a value UserVoter supports the
\* check threw the TypeError.
C29_Witness ==
    \E i \in Invocations : \E t \in DOMAIN tasks[i] :
        /\ postMeta # <<>>
        /\ postMeta[1] = [voterClass |-> "UserVoter", methodName |-> "logger",
                          staticMethod |-> Undefined]
        /\ handler[i].emitted[t] = "userDto"
        /\ \E n \in DOMAIN tasks[i][t].log :
              tasks[i][t].log[n] = LogEntry("supports", "post", 1, "userDto", "true")
        /\ tasks[i][t].frame.err = TypeError("logger is not a function in UserVoter")

(***************************************************************************)
(* C30.  The method a voter rule evaluates is the one its descriptor       *)
(* names, and vote when the descriptor has no method name or the empty     *)
(* one, in both phases: when the lookup is made and that member is a       *)
(* function, it is called, every logged call of the rule returned what     *)
(* that method returns on the context, and a denial names that method.     *)
(***************************************************************************)
EvaluatedName(meta) ==
    IF meta.methodName = Undefined \/ meta.methodName = "" THEN "vote"
    ELSE meta.methodName

Callable(meta) ==
    /\ meta.voterClass # Undefined
    /\ MemberKind(meta.voterClass, EvaluatedName(meta)) = "function"

C30_DefaultMethodIsVote ==
    \A i \in Invocations :
        /\ \A k \in DOMAIN preMeta :
              LET meta == preMeta[k]
                  returned == CallMethod(meta.voterClass, EvaluatedName(meta),
                                         OwnContext(i, Null))
              IN  (Callable(meta) /\ LookupReachedPre(i, k)) =>
                      /\ \E n \in DOMAIN log[i] :
                            log[i][n] = LogEntry("call", "pre", k, Null, returned)
                      /\ \A n \in DOMAIN log[i] :
                            (log[i][n].op = "call" /\ log[i][n].rule = k) =>
                                log[i][n].result = returned
                      /\ (preFrame[i].at = "threw" /\ preFrame[i].rule = k
                          /\ returned = "false") =>
                            rejection[i] =
                                VoterException("Pre-authorization denied by "
                                               \o meta.voterClass \o "."
                                               \o EvaluatedName(meta))
        /\ \A t \in DOMAIN tasks[i] : \A k \in DOMAIN postMeta :
              LET meta == postMeta[k]
                  task == tasks[i][t]
              IN  (Callable(meta) /\ LookupReachedPost(task, k)) =>
                      /\ \E n \in DOMAIN task.log :
                            /\ task.log[n].op = "call"
                            /\ task.log[n].rule = k
                      /\ \A n \in DOMAIN task.log :
                            (task.log[n].op = "call" /\ task.log[n].rule = k) =>
                                task.log[n].result =
                                    CallMethod(meta.voterClass, EvaluatedName(meta),
                                               OwnContext(i, task.log[n].data))
                      /\ (task.frame.at = "threw" /\ task.frame.rule = k
                          /\ task.frame.err.type = "VoterException") =>
                            task.frame.err =
                                VoterException("Post-authorization denied by "
                                               \o meta.voterClass \o "."
                                               \o EvaluatedName(meta))

\* TestVoter with the empty method name in the post-phase, after canCreate
\* let the admin in: vote was called on a value it does not allow, and the
\* denial names vote.
C30_Witness ==
    \E i \in Invocations : \E t \in DOMAIN tasks[i] :
        /\ preMeta = <<[voterClass |-> "TestVoter", methodName |-> "canCreate",
                        staticMethod |-> Undefined]>>
        /\ postMeta = <<[voterClass |-> "TestVoter", methodName |-> "",
                         staticMethod |-> Undefined]>>
        /\ \E n \in DOMAIN log[i] : log[i][n] = LogEntry("call", "pre", 1, Null, "true")
        /\ \E n \in DOMAIN tasks[i][t].log :
              tasks[i][t].log[n] = LogEntry("call", "post", 1, "userDto", "false")
        /\ tasks[i][t].frame.err =
              VoterException("Post-authorization denied by TestVoter.vote")

(***************************************************************************)
(* C31.  With rules and a handler that return in the end, every invocation *)
(* that has started comes to an end: rejected (a denial or an error of the *)
(* pre-phase or of the context builder), or its stream completed or failed *)
(* (a denial, a rule's error or the handler's own).  And there is no       *)
(* timeout: while a pre-phase rule is pending the handler has not been     *)
(* called, and the pre-phase is left only by a step in which the awaited   *)
(* promise settles.                                                        *)
(***************************************************************************)
Terminal(i) ==
    \/ pc[i] = "rejected"
    \/ out[i].state \in {"completed", "errored"}

\* The pre-phase of i is left, if at all, by the promise it awaits settling:
\* the frame moves on from that await, and the handler is called only when
\* the loop returned.
LeavesPreBySettling(i) ==
    pc[i] = "pre" =>
        /\ handleCalls[i] = 0
        /\ (pc'[i] # "pre" \/ preFrame'[i] # preFrame[i]) =>
              /\ preFrame[i].at \in {"awaitStatic", "awaitVoter", "awaitMethod"}
              /\ preFrame'[i].rule >= preFrame[i].rule
              /\ handleCalls'[i] = 1 <=> preFrame'[i].at = "returned"
              /\ handleCalls'[i] \in {0, 1}

C31_Terminates ==
    /\ \A i \in LiveInvocations : Started(i) ~> Terminal(i)
    /\ [][\A i \in Invocations : LeavesPreBySettling(i)]_vars

\* An invocation went through both phases with rules that suspended, and
\* its stream completed with a value delivered.
C31_Witness ==
    \E i \in Invocations :
        /\ Len(preMeta) >= 1
        /\ Len(postMeta) >= 1
        /\ out[i].state = "completed"
        /\ out[i].delivered # <<>>
        /\ \E n \in DOMAIN log[i] : log[i][n].op = "call"

(***************************************************************************)
(* C32.  When the decision function of rule k threw, the loop it was       *)
(* called from ends at k with that error, which is no VoterException; no   *)
(* rule after k is resolved, asked supports or called in that loop.  In    *)
(* the pre-phase intercept rejects with the error and next.handle() is not *)
(* called; in the post-phase the value under check is not delivered, and   *)
(* the error is what the caller's stream fails with when the stream was    *)
(* still open.                                                             *)
(***************************************************************************)
\* The call of rule k is logged in l as having thrown, and its await resumed.
ThrewAt(l, frame, k) ==
    /\ \E n \in DOMAIN l : l[n].op = "call" /\ l[n].rule = k /\ l[n].result = "throw"
    /\ ~(frame.at \in {"awaitStatic", "awaitMethod"} /\ frame.rule = k)

OwnError == [type |-> "Error", message |-> "Should not be called"]

NothingAfter(l, k) == \A n \in DOMAIN l : l[n].rule <= k

C32_RuleErrorPropagates ==
    \A i \in Invocations :
        /\ \A k \in DOMAIN preMeta :
              ThrewAt(log[i], preFrame[i], k) =>
                  /\ preFrame[i].at = "threw"
                  /\ preFrame[i].rule = k
                  /\ pc[i] = "rejected"
                  /\ rejection[i] = OwnError
                  /\ NothingAfter(log[i], k)
                  /\ handleCalls[i] = 0
                  /\ tasks[i] = <<>>
        /\ \A t \in DOMAIN tasks[i] : \A k \in DOMAIN postMeta :
              ThrewAt(tasks[i][t].log, tasks[i][t].frame, k) =>
                  /\ tasks[i][t].frame.at = "threw"
                  /\ tasks[i][t].frame.rule = k
                  /\ tasks[i][t].frame.err = OwnError
                  /\ NothingAfter(tasks[i][t].log, k)
                  /\ tasks[i][t].fate \in {"raised", "swallowed"}
                  /\ \A d \in DOMAIN out[i].delivered : out[i].delivered[d].task # t
                  /\ tasks[i][t].fate = "raised" =>
                        /\ out[i].state = "errored"
                        /\ out[i].error = OwnError

\* SimpleVoter.vote threw in the post-phase after a rule that returned true:
\* the caller's stream failed with the error.  (The pre-phase case is the
\* first conjunct's.)
C32_Witness ==
    \E i \in Invocations : \E t \in DOMAIN tasks[i] :
        /\ Len(postMeta) = 2
        /\ postMeta[1].staticMethod = "allowAll"
        /\ postMeta[2].voterClass = "SimpleVoter"
        /\ ThrewAt(tasks[i][t].log, tasks[i][t].frame, 2)
        /\ tasks[i][t].fate = "raised"
        /\ out[i].error = [type |-> "Error", message |-> "Should not be called"]

(***************************************************************************)
(* C33.  next.handle() is called at most once in an invocation, and it has *)
(* been called exactly when intercept did not fail building the context    *)
(* and the pre-phase is over with every pre-phase rule having returned     *)
(* true, which it is from the start when there is no pre-phase rule.       *)
(***************************************************************************)
NormalizationFailed(i) ==
    \E n \in DOMAIN log[i] : log[i][n].op = "normalize" /\ log[i][n].result = "throw"

PrePhaseOver(i) ==
    \/ preMeta = <<>>
    \/ /\ preFrame[i].at = "returned"
       /\ PrePassed(i)

C33_HandlerCalledOnce ==
    \A i \in Invocations :
        /\ handleCalls[i] \in {0, 1}
        /\ handleCalls[i] = 1 <=>
              (Started(i) /\ ~NormalizationFailed(i) /\ PrePhaseOver(i))
        /\ Len(SelectSeq(log[i], LAMBDA e : e.op = "handle")) = handleCalls[i]

\* Two pre-phase rules returned true for the admin and the handler was
\* called once; it has emitted since.
C33_Witness ==
    \E i \in Invocations :
        /\ Len(preMeta) = 2
        /\ PrePassed(i)
        /\ handleCalls[i] = 1
        /\ handler[i].emitted # <<>>

(***************************************************************************)
(* C34.  Once the post-phase denied an emitted value, the denial is the    *)
(* last thing the caller receives: the stream stays errored with that      *)
(* VoterException and no value is delivered afterwards, also not a value   *)
(* whose own post-phase check passes later; that value is dropped.         *)
(***************************************************************************)
DeniedStream(i) ==
    /\ out[i].state = "errored"
    /\ out[i].error.type = "VoterException"

DenialIsTerminal(i) ==
    DeniedStream(i) =>
        /\ out'[i] = out[i]
        /\ \A t \in DOMAIN tasks'[i] :
              (t \in DOMAIN tasks[i] /\ tasks'[i][t].fate # tasks[i][t].fate)
                  => tasks'[i][t].fate \in {"dropped", "swallowed"}

C34_DenialEndsStream ==
    [][\A i \in Invocations : DenialIsTerminal(i)]_vars

\* A value's check was denied, and a value whose own check passed finished
\* after it and was dropped.
C34_Witness ==
    \E i \in Invocations :
        /\ DeniedStream(i)
        /\ \E t \in DOMAIN tasks[i] :
              /\ tasks[i][t].fate = "dropped"
              /\ PostPassed(tasks[i][t])
              /\ ~Delivered(i, t)

(***************************************************************************)
(* C35.  Values that all pass the post-phase reach the caller in the order *)
(* in which the handler emitted them, however long the rule evaluations of *)
(* each value take.                                                        *)
(***************************************************************************)
AllPassed(i) ==
    \A t \in DOMAIN tasks[i] :
        tasks[i][t].fate # "pending" => PostPassed(tasks[i][t])

C35_EmissionOrder ==
    \A i \in Invocations :
        AllPassed(i) =>
            \A m, n \in DOMAIN out[i].delivered :
                m < n => out[i].delivered[m].task < out[i].delivered[n].task

=============================================================================
